---- MODULE Spec2Model ----
(***************************************************************************)
(* The Gree high-level client (GreeInternal / Gree of sync_client.rs and   *)
(* async_client.rs) as a state machine: the device registry, the last-scan *)
(* timestamp, the caller's variable bag and the position of the public     *)
(* call that is in progress.  The network is the environment: every answer *)
(* of the low-level GreeClient (scan, bind, getvars, setvars) is an input  *)
(* drawn from a small set.                                                 *)
(***************************************************************************)
EXTENDS Integers, Sequences, FiniteSets, TLC

\* ------------------------------------------------------------------ bounds
\* Last instant of the modelled clock.
MaxTime == 2
\* Largest configured min_scan_age / max_scan_age.
MaxAge == 2
\* Longest time one low-level scan takes.
MaxScanTime == 1
\* Longest cols/dat (opt/p) list of a modelled Status (Command) response.
MaxCols == 1
\* The per-device count of Bind exchanges saturates here.
MaxBindCount == 2
\* Longest list of names or of name=value pairs a bag is built from.
MaxPairs == 2
\* Longest cols / dat / opt / p list of a response a bag is updated from.
MaxEcho == 2
\* Datagrams the receive queue holds, and requests one client sends.
MaxQueue == 1
MaxReq == 2
\* Whole blocks of the longest payload that is encoded.
MaxBlocks == 2

\* GreeClientConfig.max_count of the modelled client: a scan stops after two replies.
max_count == 2

\* ------------------------------------------------------------------ state
VARIABLES
    cfg,      \* GreeConfig: min_scan_age, max_scan_age, aliases; and which client
    now,      \* Instant::now()
    scan_ts,  \* GreeInternal.scan_ts : Option<Instant>
    devices,  \* GreeState.devices : MAC -> Device
    vars,     \* the NetVarBag the caller lent to the call in progress
    pc,       \* position of the public call in progress ("idle": none)
    call,     \* the current (or last) public call: what it did and returned
    nbind,    \* per MAC: Bind exchanges answered since the last executed scan
    queue,    \* GreeClient.r (channel of the receiver thread) / the socket's buffer
    wire,     \* datagrams on their way to the socket
    rx,       \* the receiver thread of the synchronous client: "up" or "down"
    nreq,     \* requests sent so far through GreeClient.s
    front     \* the HTTP front end: whose request the orchestrator works on, who holds
              \* the Mutex, and each handler's request

\* The low-level client's state and the front end's; the orchestrator's
\* operations are modelled with the client's calls taken whole and leave both
\* alone, but for the receiver thread that an exchange finds ended.
netvars == <<queue, wire, rx, nreq, front>>

allvars == <<cfg, now, scan_ts, devices, vars, pc, call, nbind, queue, wire, rx, nreq, front>>

\* No front end: the orchestrator is used by one caller directly.
NoFront == [kind |-> "-", owner |-> "-", lock |-> "-", h |-> <<>>]

\* ------------------------------------------------------------- value sets
\* Option<T>: None is the empty sequence, Some(x) the one-element sequence.
None == <<>>
Some(x) == <<x>>

\* HashMap::new()
EmptyMap == [x \in {} |-> x]

Put(m, k, v) == [x \in (DOMAIN m) \cup {k} |-> IF x = k THEN v ELSE m[x]]

SeqsUpTo(S, n) == UNION {[1..k -> S] : k \in 0..n}

\* MAC addresses devices report, and the addresses replies come from.
MACs == {"m1", "m2"}
IPs == {"ip1", "ip2"}
\* The name field of a scan response pack (metadata): a device answering from
\* ip1 reports the name n1, one answering from ip2 the name n2.
NameAt(ip) == IF ip = "ip1" THEN "n1" ELSE "n2"
\* Targets callers pass: an alias, and two MACs (one of them is also an alias key).
Targets == {"a1", "m1", "m2"}
\* Session keys devices hand out in bind responses.
Keys == {"k1", "k2"}

GENERIC_KEY == "a3K8Bx%2r8Y7#xDh"

\* Result<()>: Ok(()) or Err(e); an error is its variant name and its argument.
Ok == <<"Ok">>
Err(kind) == <<kind>>
NotFound(id) == <<"NotFound", id>>
MacNotBound(mac) == <<"MacNotBound", mac>>
Pending == <<"Pending">>
IsOk(r) == r[1] = "Ok"

\* An operation that does not return: the thread panics.  As the outcome of a
\* step it reads like an error, Err("Panic"), but no caller ever sees it.
Panic == <<"Panic">>

\* ------------------------------------------------------------ the catalog
ALL == {"Pow", "Mod", "SetTem", "TemUn", "WdSpd", "Air", "Blo", "Health",
        "SwhSlp", "Lig", "SwingLfRig", "SwUpDn", "Quiet", "Tur", "StHt",
        "HeatCoolType", "TemRec", "SvSt", "TemSen", "time"}

\* A variant of name_of that takes any name.
name_of_Any(n) == Some(n)

\* vars::name_of
name_of(n) == IF n \in ALL THEN Some(n) ELSE None

\* serde_json Values by their JSON text.
Null == "null"
Values == {"0", "1"}

\* ---------------------------------------------------------- variable bags
\* SimpleNetVar::new()
NewNetVar == [value |-> Null, net_read_pending |-> TRUE, net_write_pending |-> FALSE]

\* A variant of from_value that marks nothing as pending.
from_value_NoFlag(value) == [value |-> value, net_read_pending |-> FALSE, net_write_pending |-> FALSE]

\* SimpleNetVar::from_value(value)
from_value(value) == [value |-> value, net_read_pending |-> FALSE, net_write_pending |-> TRUE]

\* SimpleNetVar::user_set
user_set(nv, value) == [nv EXCEPT !.value = value, !.net_write_pending = TRUE]

\* A variant of net_set that leaves the read flag alone.
net_set_KeepPending(nv, value) == [nv EXCEPT !.value = value]

\* NetVar::net_set
net_set(nv, value) == [nv EXCEPT !.value = value, !.net_read_pending = FALSE]

\* A variant of clear_net_write_pending that clears nothing.
clear_net_write_pending_Noop(nv) == nv

\* NetVar::clear_net_write_pending
clear_net_write_pending(nv) == [nv EXCEPT !.net_write_pending = FALSE]

\* The bags callers pass in: built from names (read) or from name=value (write).
ReadBags == { [n \in {"Pow"} |-> NewNetVar] }
WriteBags == { [n \in {"Pow"} |-> from_value("1")] }

\* Op: the operations of apply, and the bags each is called with.
Ops == {"Bind", "NetRead", "NetWrite"}
OpBags(op) ==
    CASE op = "Bind" -> {EmptyMap}
      [] op = "NetRead" -> ReadBags
      [] op = "NetWrite" -> WriteBags

\* ------------------------------------------------------ building bags
\* A literal a caller passes as a value is the sequence of its characters.
RECURSIVE Join(_)
Join(cs) == IF cs = <<>> THEN "" ELSE Head(cs) \o Join(Tail(cs))

DigitChars == {"0", "1", "2", "3", "4", "5", "6", "7", "8", "9"}
DigitVal(c) ==
    CASE c = "0" -> 0 [] c = "1" -> 1 [] c = "2" -> 2 [] c = "3" -> 3 [] c = "4" -> 4
      [] c = "5" -> 5 [] c = "6" -> 6 [] c = "7" -> 7 [] c = "8" -> 8 [] c = "9" -> 9

RECURSIVE DecimalOf(_, _)
DecimalOf(acc, ds) == IF ds = <<>> THEN acc ELSE DecimalOf(acc * 10 + DigitVal(Head(ds)), Tail(ds))

\* str::parse::<u8>: an optional '+', then one or more decimal digits whose
\* value fits eight bits; None stands for a ParseIntError.
parse_u8(lit) ==
    LET ds == IF lit # <<>> /\ Head(lit) = "+" THEN Tail(lit) ELSE lit
    IN  IF ds = <<>> \/ \E i \in 1..Len(ds) : ds[i] \notin DigitChars THEN None
        ELSE IF DecimalOf(0, ds) > 255 THEN None
        ELSE Some(DecimalOf(0, ds))

\* Value::Number(w) and Value::String(s), by their JSON text.
JsonNumber(w) == ToString(w)
JsonString(lit) == "\"" \o Join(lit) \o "\""

InvalidVar(name) == <<"InvalidVar", name>>
InvalidValue(name, lit) == <<"InvalidValue", name, Join(lit)>>

\* The variables parse_value takes for {0,1} and for u8.
BoolVars == {"Pow", "TemUn", "Air", "Blo", "Health", "SwhSlp", "Lig", "Quiet", "Tur",
             "SvSt", "StHt"}
U8Vars == {"Mod", "SetTem", "TemRec", "WdSpd", "SwingLfRig", "SwUpDn"}

\* A variant of parse_value that lets 2 pass for a {0,1} variable.
parse_value_Lenient(name, lit) ==
    LET w == parse_u8(lit)
    IN  IF name \in BoolVars \cup U8Vars
        THEN IF w = None THEN [r |-> Err("ParseInt"), value |-> Null]
             ELSE IF name \in BoolVars /\ w[1] > 2
             THEN [r |-> InvalidValue(name, lit), value |-> Null]
             ELSE [r |-> Ok, value |-> JsonNumber(w[1])]
        ELSE [r |-> Ok, value |-> JsonString(lit)]

\* vars::parse_value
parse_value(name, lit) ==
    IF name = "time" THEN [r |-> Ok, value |-> JsonString(lit)]
    ELSE IF name \in BoolVars
    THEN LET w == parse_u8(lit)
         IN  IF w = None THEN [r |-> Err("ParseInt"), value |-> Null]
             ELSE IF w[1] > 1 THEN [r |-> InvalidValue(name, lit), value |-> Null]
             ELSE [r |-> Ok, value |-> JsonNumber(w[1])]
    ELSE IF name \in U8Vars
    THEN LET w == parse_u8(lit)
         IN  IF w = None THEN [r |-> Err("ParseInt"), value |-> Null]
             ELSE [r |-> Ok, value |-> JsonNumber(w[1])]
    ELSE [r |-> Ok, value |-> JsonString(lit)]

\* SimpleNetVar::add_n_to
add_n_to(bag, name) ==
    LET n == name_of(name)
    IN  IF n = None THEN [r |-> InvalidVar(name), bag |-> None]
        ELSE [r |-> Ok, bag |-> Some(Put(bag, n[1], NewNetVar))]

\* SimpleNetVar::add_nv_to
add_nv_to(bag, nv) ==
    LET n == name_of(nv[1])
    IN  IF n = None THEN [r |-> InvalidVar(nv[1]), bag |-> None]
        ELSE LET v == parse_value(n[1], nv[2])
             IN  IF ~IsOk(v.r) THEN [r |-> v.r, bag |-> None]
                 ELSE [r |-> Ok, bag |-> Some(Put(bag, n[1], from_value(v.value)))]

\* Iterator::try_fold over add_n_to: the first error ends the fold.
RECURSIVE FoldNames(_, _)
FoldNames(bag, ns) ==
    IF ns = <<>> THEN [r |-> Ok, bag |-> Some(bag)]
    ELSE LET a == add_n_to(bag, Head(ns))
         IN  IF IsOk(a.r) THEN FoldNames(a.bag[1], Tail(ns)) ELSE a

\* Iterator::try_fold over add_nv_to.
RECURSIVE FoldNvs(_, _)
FoldNvs(bag, nvs) ==
    IF nvs = <<>> THEN [r |-> Ok, bag |-> Some(bag)]
    ELSE LET a == add_nv_to(bag, Head(nvs))
         IN  IF IsOk(a.r) THEN FoldNvs(a.bag[1], Tail(nvs)) ELSE a

\* net_var_bag_from_names and net_var_bag_from_nvs
net_var_bag_from_names(ns) == FoldNames(EmptyMap, ns)
net_var_bag_from_nvs(nvs) == FoldNvs(EmptyMap, nvs)

\* ------------------------------------------------- the network's answers
\* One scan reply: the sender address and the decoded ScanResponsePack.  The
\* device m1 answers from either address, m2 from ip2 only.
ScanReplies == { [ip |-> x[1], pack |-> [mac |-> x[2], name |-> NameAt(x[1])]] :
                   x \in {y \in IPs \X MACs : y[2] = "m1" \/ y[1] = "ip2"} }

\* The answer to a Bind whose exchange has given up waiting is still there
\* when the next scan listens, and the scan takes it as a reply: every member
\* of ScanResponsePack has a default, and a bindok pack has a mac and no name.
\* Here the late answers are those of m1 at ip1.
LateBindAnswers == { [ip |-> r.ip, pack |-> [mac |-> r.pack.mac, name |-> ""]] :
                       r \in {x \in ScanReplies : x.ip = "ip1"} }

\* What a scan takes as the replies of devices.
Replies == ScanReplies \cup LateBindAnswers

\* The two clients: sync_client::GreeClient and async_client::GreeClient.
Clients == {"sync", "async"}

\* The error of a receive that times out: the synchronous client's
\* recv_timeout gives RecvTimeout, the asynchronous client's recv
\* ResponseTimeout.
TimeoutOf(client) == IF client = "sync" THEN "RecvTimeout" ELSE "ResponseTimeout"

\* How an exchange fails before an answer is handled.  The synchronous
\* client's exchange first drains the channel of its receiver thread, and
\* returns ReceiverDisconnected, with nothing sent, if the thread has ended
\* (r = "down": an exchange has found it so; it stays so).
ExchangeFailures(client, r) ==
    IF client = "async" THEN {"Io", "ResponseTimeout"}
    ELSE IF r = "down" THEN {"ReceiverDisconnected"}
    ELSE {"Io", "RecvTimeout", "ReceiverDisconnected"}

\* The errors of an exchange that returns before its request is sent.
Unsent == {"Io", "ReceiverDisconnected"}

\* How handle_response fails on the pack of a message that arrived: the pack
\* is not base64 ("Base64Decode", decode_response's `?`), it decrypts to
\* something that is no JSON of the expected pack ("SerDe"), or it decodes to
\* a length that is no multiple of the block size, and decode_response panics
\* in payload[pos..pos+blocksize].
DecodeErrors == {"SerDe", "Base64Decode", "Panic"}

\* The errors of an exchange, of either client.
AllExchangeErrors ==
    {"Io", "RecvTimeout", "ResponseTimeout", "ReceiverDisconnected"} \cup DecodeErrors

\* Of the outcomes outs of an exchange, those the client can meet when its
\* receiver thread is r.
Meets(outs, client, r) ==
    { o \in outs :
        IF o.err \in {""} \cup DecodeErrors
        THEN ~(client = "sync" /\ r = "down")
        ELSE o.err \in ExchangeFailures(client, r) }

\* The receiver thread after an exchange that returned res.
RxAfter(r, res) == IF res = <<"ReceiverDisconnected">> THEN "down" ELSE r

\* What one GreeClient::scan meets: the broadcast cannot be sent ("Io"), the
\* pack of a reply cannot be handled, or replies followed by a timeout or by
\* max_count being reached.
ScanOuts == { [err |-> e, replies |-> <<>>] : e \in {"Io"} \cup DecodeErrors }
            \cup { [err |-> "", replies |-> rs] : rs \in SeqsUpTo(Replies, max_count) }

\* What one Bind exchange meets: the request cannot be sent ("Io"), the
\* receiver thread has ended, no answer arrives in time ("RecvTimeout",
\* "ResponseTimeout"), the pack of the answer cannot be handled,
\* or a bindok pack carrying a key.
BindOuts == { [err |-> e, key |-> ""] : e \in AllExchangeErrors }
            \cup { [err |-> "", key |-> k] : k \in Keys }

\* Names a device may put in cols / opt: one of the catalog, one unknown.
RespNames == {"Pow", "Zz"}

\* What one Status or Command exchange meets: an error, or a response pack
\* whose name list (cols / opt) and value list (dat / p) are paired by position.
DataOuts == { [err |-> e, names |-> <<>>, vals |-> <<>>] : e \in AllExchangeErrors }
            \cup { [err |-> "", names |-> ns, vals |-> vs] :
                     ns \in SeqsUpTo(RespNames, MaxCols), vs \in SeqsUpTo(Values, MaxCols) }

\* One entry of the exchange log: a datagram that was sent, and whether its
\* answer came back and was handled (ok).  key: the key the request is encrypted with; cols:
\* the names of a Status request; p: the name->value pairs of a Command
\* request; rkey: the key a bindok answer carries.
Dgram(t, ip, mac, key, cols, p, ok, rkey) ==
    [ t |-> t, ip |-> ip, mac |-> mac, key |-> key, cols |-> cols, p |-> p,
      ok |-> ok, rkey |-> rkey ]

\* ------------------------------------------------- low-level GreeClient
\* GreeClient::scan: broadcast, then collect the replies.
ClientScan(out) ==
    [ r      |-> IF out.err = "" THEN Ok ELSE Err(out.err),
      result |-> out.replies,
      sent   |-> IF out.err = "Io" THEN <<>>
                 ELSE << Dgram("scan", "bcast", "", "", {}, EmptyMap, out.err = "", "") >> ]

\* GreeClient::bind: one exchange encrypted with the generic key.
ClientBind(addr, mac, out) ==
    [ r    |-> IF out.err = "" THEN Ok ELSE Err(out.err),
      pack |-> [t |-> "bindok", mac |-> mac, key |-> out.key],
      sent |-> IF out.err \in Unsent THEN <<>>
               ELSE << Dgram("bind", addr, mac, GENERIC_KEY, {}, EmptyMap, out.err = "", out.key) >> ]

\* GreeClient::getvars: one Status exchange encrypted with the device key.
ClientGetvars(addr, mac, key, names, out) ==
    [ r    |-> IF out.err = "" THEN Ok ELSE Err(out.err),
      pack |-> [cols |-> out.names, dat |-> out.vals],
      sent |-> IF out.err \in Unsent THEN <<>>
               ELSE << Dgram("status", addr, mac, key, names, EmptyMap, out.err = "", "") >> ]

\* GreeClient::setvars: one Command exchange encrypted with the device key.
ClientSetvars(addr, mac, key, req, out) ==
    [ r    |-> IF out.err = "" THEN Ok ELSE Err(out.err),
      pack |-> [opt |-> out.names, p |-> out.vals],
      sent |-> IF out.err \in Unsent THEN <<>>
               ELSE << Dgram("cmd", addr, mac, key, {}, req, out.err = "", "") >> ]

\* ------------------------------------------------------------- registry
\* A variant of bind_ind that keeps the generic key as the session key.
bind_ind_Generic(dev, pack) == [dev EXCEPT !.key = Some(GENERIC_KEY)]

\* Device::bind_ind
bind_ind(dev, pack) == [dev EXCEPT !.key = Some(pack.key)]

RECURSIVE CollectDevices(_, _)
CollectDevices(acc, rs) ==
    IF rs = <<>> THEN acc
    ELSE LET h == Head(rs)
         IN CollectDevices(Put(acc, h.pack.mac,
                               [ip |-> h.ip, scan_result |-> h.pack, key |-> None]),
                           Tail(rs))

\* A variant of scan_ind that adds the replies to the registry it finds.
scan_ind_Merge(scan_result) == CollectDevices(devices, scan_result)

\* A variant of scan_ind that lets a device that answers again keep its key.
scan_ind_KeepKeys(scan_result) ==
    LET d == CollectDevices(EmptyMap, scan_result)
    IN  [ m \in DOMAIN d |->
            IF m \in DOMAIN devices THEN [d[m] EXCEPT !.key = devices[m].key] ELSE d[m] ]

\* GreeState::scan_ind: the new device map, collected from the replies in order.
scan_ind(scan_result) == CollectDevices(EmptyMap, scan_result)

\* ------------------------------------------------------- GreeInternal
\* A variant of the decision that lets a scan of exactly max_scan_age stand.
ScanAllowed_StrictMax(ts, t, c, forced) ==
    \/ ts = None
    \/ ts # None /\ t > ts[1] + c.max_scan_age
    \/ ts # None /\ t >= ts[1] + c.min_scan_age /\ forced

\* A variant of the decision that pays no attention to forced.
ScanAllowed_Unforced(ts, t, c, forced) ==
    \/ ts = None
    \/ ts # None /\ t >= ts[1] + c.max_scan_age

\* GreeInternal::scan, the decision: may a scan run at instant t?
ScanAllowed(ts, t, c, forced) ==
    \/ ts = None
    \/ ts # None /\ t >= ts[1] + c.max_scan_age
    \/ ts # None /\ t >= ts[1] + c.min_scan_age /\ forced

\* A variant of scan that stamps the time of a scan that failed.
scan_StampFailed(forced, out, d) ==
    LET allow == ScanAllowed(scan_ts, now, cfg, forced)
        cs    == ClientScan(out)
    IN  IF allow /\ IsOk(cs.r)
        THEN [ r |-> Ok, ran |-> TRUE, sent |-> cs.sent, replies |-> cs.result,
               scan_ts |-> Some(now + d), devices |-> scan_ind(cs.result), now |-> now + d ]
        ELSE IF allow
        THEN [ r |-> cs.r, ran |-> TRUE, sent |-> cs.sent, replies |-> <<>>,
               scan_ts |-> Some(now), devices |-> devices, now |-> now ]
        ELSE [ r |-> Ok, ran |-> FALSE, sent |-> <<>>, replies |-> <<>>,
               scan_ts |-> scan_ts, devices |-> devices, now |-> now ]

\* GreeInternal::scan(forced): out is what the network does if the scan runs,
\* d the time the low-level scan takes.  Returns the result and the new
\* timestamp, registry and clock.
scan(forced, out, d) ==
    LET allow == ScanAllowed(scan_ts, now, cfg, forced)
        cs    == ClientScan(out)
    IN  IF allow /\ IsOk(cs.r)
        THEN [ r |-> Ok, ran |-> TRUE, sent |-> cs.sent, replies |-> cs.result,
               scan_ts |-> Some(now + d), devices |-> scan_ind(cs.result), now |-> now + d ]
        ELSE IF allow
        THEN [ r |-> cs.r, ran |-> TRUE, sent |-> cs.sent, replies |-> <<>>,
               scan_ts |-> scan_ts, devices |-> devices, now |-> now ]
        ELSE [ r |-> Ok, ran |-> FALSE, sent |-> <<>>, replies |-> <<>>,
               scan_ts |-> scan_ts, devices |-> devices, now |-> now ]

\* A variant of bindc that never binds.
bindc_Skip(mac, dev, out) == [r |-> Ok, dev |-> dev, sent |-> <<>>]

\* A variant of bindc that binds whether or not the device has a key.
bindc_Always(mac, dev, out) ==
    LET b == ClientBind(dev.ip, mac, out)
    IN  IF IsOk(b.r)
        THEN [r |-> Ok, dev |-> bind_ind(dev, b.pack), sent |-> b.sent]
        ELSE [r |-> b.r, dev |-> dev, sent |-> b.sent]

\* GreeInternal::bindc: bind the device unless it has a key.
bindc(mac, dev, out) ==
    IF dev.key = None
    THEN LET b == ClientBind(dev.ip, mac, out)
         IN  IF IsOk(b.r)
             THEN [r |-> Ok, dev |-> bind_ind(dev, b.pack), sent |-> b.sent]
             ELSE [r |-> b.r, dev |-> dev, sent |-> b.sent]
    ELSE [r |-> Ok, dev |-> dev, sent |-> <<>>]

\* A variant of the loop that adds a slot for a catalog name the bag lacks.
RECURSIVE ReadFold_Insert(_, _, _)
ReadFold_Insert(bag, cols, dat) ==
    IF cols = <<>> \/ dat = <<>> THEN bag
    ELSE LET n == name_of(Head(cols))
             b == IF n # None THEN Put(bag, n[1], net_set(NewNetVar, Head(dat))) ELSE bag
         IN  ReadFold_Insert(b, Tail(cols), Tail(dat))

\* The loop of net_read over cols zipped with dat.
RECURSIVE ReadFold(_, _, _)
ReadFold(bag, cols, dat) ==
    IF cols = <<>> \/ dat = <<>> THEN bag
    ELSE LET n == name_of(Head(cols))
             b == IF n # None /\ n[1] \in DOMAIN bag
                  THEN [bag EXCEPT ![n[1]] = net_set(@, Head(dat))]
                  ELSE bag
         IN  ReadFold(b, Tail(cols), Tail(dat))

\* A variant of net_read that asks the device even for no name at all.
net_read_AlwaysAsk(mac, dev, bag, out) ==
    IF dev.key = None THEN [r |-> MacNotBound(mac), vars |-> bag, sent |-> <<>>]
    ELSE LET names == {n \in DOMAIN bag : bag[n].net_read_pending}
             g     == ClientGetvars(dev.ip, mac, dev.key[1], names, out)
         IN  IF IsOk(g.r)
             THEN [r |-> Ok, vars |-> ReadFold(bag, g.pack.cols, g.pack.dat), sent |-> g.sent]
             ELSE [r |-> g.r, vars |-> bag, sent |-> g.sent]

\* GreeInternal::net_read
net_read(mac, dev, bag, out) ==
    IF dev.key = None THEN [r |-> MacNotBound(mac), vars |-> bag, sent |-> <<>>]
    ELSE LET names == {n \in DOMAIN bag : bag[n].net_read_pending}
         IN  IF names = {} THEN [r |-> Ok, vars |-> bag, sent |-> <<>>]
             ELSE LET g == ClientGetvars(dev.ip, mac, dev.key[1], names, out)
                  IN  IF IsOk(g.r)
                      THEN [r |-> Ok, vars |-> ReadFold(bag, g.pack.cols, g.pack.dat),
                            sent |-> g.sent]
                      ELSE [r |-> g.r, vars |-> bag, sent |-> g.sent]

\* The loop of net_write over opt zipped with p.
RECURSIVE WriteFold(_, _, _)
WriteFold(bag, opt, p) ==
    IF opt = <<>> \/ p = <<>> THEN bag
    ELSE LET n == name_of(Head(opt))
             b == IF n # None /\ n[1] \in DOMAIN bag
                  THEN [bag EXCEPT ![n[1]] = net_set(clear_net_write_pending(@), Head(p))]
                  ELSE bag
         IN  WriteFold(b, Tail(opt), Tail(p))

\* A variant of net_write that clears the flags of the slots it sends before
\* the exchange.
net_write_ClearFirst(mac, dev, bag, out) ==
    IF dev.key = None THEN [r |-> MacNotBound(mac), vars |-> bag, sent |-> <<>>]
    ELSE LET names   == {n \in DOMAIN bag : bag[n].net_write_pending}
             req     == [n \in names |-> bag[n].value]
             cleared == [n \in DOMAIN bag |-> clear_net_write_pending(bag[n])]
         IN  IF names = {} THEN [r |-> Ok, vars |-> bag, sent |-> <<>>]
             ELSE LET g == ClientSetvars(dev.ip, mac, dev.key[1], req, out)
                  IN  IF IsOk(g.r)
                      THEN [r |-> Ok, vars |-> WriteFold(bag, g.pack.opt, g.pack.p),
                            sent |-> g.sent]
                      ELSE [r |-> g.r, vars |-> cleared, sent |-> g.sent]

\* GreeInternal::net_write
net_write(mac, dev, bag, out) ==
    IF dev.key = None THEN [r |-> MacNotBound(mac), vars |-> bag, sent |-> <<>>]
    ELSE LET names == {n \in DOMAIN bag : bag[n].net_write_pending}
             req   == [n \in names |-> bag[n].value]
         IN  IF names = {} THEN [r |-> Ok, vars |-> bag, sent |-> <<>>]
             ELSE LET g == ClientSetvars(dev.ip, mac, dev.key[1], req, out)
                  IN  IF IsOk(g.r)
                      THEN [r |-> Ok, vars |-> WriteFold(bag, g.pack.opt, g.pack.p),
                            sent |-> g.sent]
                      ELSE [r |-> g.r, vars |-> bag, sent |-> g.sent]

\* A variant of apply_dev that forgets the key when the operation fails.
apply_dev_Unbind(mac, dev, op, bag, bout, dout) ==
    LET b == bindc(mac, dev, bout)
        o == IF op = "NetWrite" THEN net_write(mac, b.dev, bag, dout)
             ELSE net_read(mac, b.dev, bag, dout)
    IN  IF ~IsOk(b.r) THEN [r |-> b.r, dev |-> b.dev, vars |-> bag, sent |-> b.sent]
        ELSE IF op = "Bind" THEN [r |-> Ok, dev |-> b.dev, vars |-> bag, sent |-> b.sent]
        ELSE [r |-> o.r, dev |-> IF IsOk(o.r) THEN b.dev ELSE [b.dev EXCEPT !.key = None],
              vars |-> o.vars, sent |-> b.sent \o o.sent]

\* GreeInternal::apply_dev: bind if needed, then dispatch on the operation.
apply_dev(mac, dev, op, bag, bout, dout) ==
    LET b == bindc(mac, dev, bout)
    IN  IF ~IsOk(b.r) THEN [r |-> b.r, dev |-> b.dev, vars |-> bag, sent |-> b.sent]
        ELSE CASE op = "Bind" ->
                    [r |-> Ok, dev |-> b.dev, vars |-> bag, sent |-> b.sent]
               [] op = "NetRead" ->
                    LET o == net_read(mac, b.dev, bag, dout)
                    IN  [r |-> o.r, dev |-> b.dev, vars |-> o.vars, sent |-> b.sent \o o.sent]
               [] op = "NetWrite" ->
                    LET o == net_write(mac, b.dev, bag, dout)
                    IN  [r |-> o.r, dev |-> b.dev, vars |-> o.vars, sent |-> b.sent \o o.sent]

\* A variant of the rewrite that looks the result up in the alias table again.
Resolve_Chained(target) ==
    LET once == IF target \in DOMAIN cfg.aliases THEN cfg.aliases[target] ELSE target
    IN  IF once \in DOMAIN cfg.aliases THEN cfg.aliases[once] ELSE once

\* The alias rewrite of apply and with_device.
Resolve(target) ==
    IF target \in DOMAIN cfg.aliases THEN cfg.aliases[target] ELSE target

\* A variant of apply whose NotFound names the resolved MAC.
apply_NamesMac(devs, target, op, bag, bout, dout) ==
    LET mac == Resolve(target)
    IN  IF mac \notin DOMAIN devs
        THEN [r |-> NotFound(mac), devices |-> devs, vars |-> bag, sent |-> <<>>]
        ELSE LET a == apply_dev(mac, devs[mac], op, bag, bout, dout)
             IN  [r |-> a.r, devices |-> [devs EXCEPT ![mac] = a.dev],
                  vars |-> a.vars, sent |-> a.sent]

\* GreeInternal::apply
apply(devs, target, op, bag, bout, dout) ==
    LET mac == Resolve(target)
    IN  IF mac \notin DOMAIN devs
        THEN [r |-> NotFound(target), devices |-> devs, vars |-> bag, sent |-> <<>>]
        ELSE LET a == apply_dev(mac, devs[mac], op, bag, bout, dout)
             IN  [r |-> a.r, devices |-> [devs EXCEPT ![mac] = a.dev],
                  vars |-> a.vars, sent |-> a.sent]

\* A variant of the lookup that takes the target as the registry key.
with_device_NoAlias(devs, target) ==
    IF target \notin DOMAIN devs
    THEN [r |-> NotFound(target), ret |-> None]
    ELSE [r |-> Ok, ret |-> Some(devs[target])]

\* GreeInternal::with_device: f sees the device; ret is what f was given.
with_device(devs, target) ==
    LET mac == Resolve(target)
    IN  IF mac \notin DOMAIN devs
        THEN [r |-> NotFound(target), ret |-> None]
        ELSE [r |-> Ok, ret |-> Some(devs[mac])]

\* Where a step that ended with r leaves the call: a panic unwinds through
\* every caller and nothing of the call runs after it; otherwise the call
\* goes on as n says.
Unwind(r, n) == IF r = Panic THEN [pc |-> "aborted", result |-> Panic] ELSE n

\* A scan that is the whole call: it returns what GreeInternal::scan returned.
AfterOnlyScan(r) == Unwind(r, [pc |-> "done", result |-> r])

\* apply_retrying / with_device_retrying after scan(false): its error is returned.
AfterScan(r, next) ==
    IF IsOk(r) THEN [pc |-> next, result |-> Pending]
    ELSE [pc |-> "done", result |-> r]

\* A variant that gives up after the first attempt.
AfterFirst_NoRetry(r) == [pc |-> "done", result |-> r]

\* apply_retrying after the first attempt: return on success, else rescan.
AfterFirst(r) ==
    IF IsOk(r) THEN [pc |-> "done", result |-> Ok]
    ELSE [pc |-> "scan2", result |-> Pending]

\* A variant that applies again whatever the rescan returned.
AfterRescan_Swallow(r) == [pc |-> "apply2", result |-> Pending]

\* apply_retrying after scan(true): its error is returned, else apply again.
AfterRescan(r) ==
    IF IsOk(r) THEN [pc |-> "apply2", result |-> Pending]
    ELSE [pc |-> "done", result |-> r]

\* A variant that rescans again after a failed second attempt.
AfterSecond_Loop(r) ==
    IF IsOk(r) THEN [pc |-> "done", result |-> r]
    ELSE [pc |-> "scan2", result |-> Pending]

\* apply_retrying after the second attempt: its result is the call's result.
AfterSecond(r) == [pc |-> "done", result |-> r]

\* --------------------------------------------------------- bookkeeping
Min(a, b) == IF a <= b THEN a ELSE b

\* A fresh record of a public call.
\* missing: the target was absent from the registry when the call began;
\* scans: the scan decisions taken so far; attempts: the results of the apply
\* (with_device) attempts so far; sent, replies: the datagrams the last step
\* sent and the replies its scan collected; binds: the Bind datagrams this
\* call sent since its last executed scan.
StartCall(api, op, target) ==
    [ api |-> api, op |-> op, target |-> target,
      missing |-> target \in Targets /\ Resolve(target) \notin DOMAIN devices,
      scans |-> <<>>, attempts |-> <<>>, binds |-> 0,
      sent |-> <<>>, replies |-> <<>>, result |-> Pending, ret |-> None ]

\* No call is in progress.
NoCall == StartCall("-", "-", "-")

\* The call record after one scan decision s.
LogScan(c, forced, s) ==
    [ c EXCEPT !.scans = Append(@, [forced |-> forced, ran |-> s.ran, r |-> s.r]),
               !.binds = IF s.ran THEN 0 ELSE @,
               !.sent = s.sent, !.replies = s.replies ]

\* The call record after one apply attempt a.
LogApply(c, a) ==
    [ c EXCEPT !.attempts = Append(@, a.r),
               !.binds = Min(@ + Cardinality({i \in 1..Len(a.sent) : a.sent[i].t = "bind"}),
                             MaxBindCount),
               !.sent = a.sent, !.replies = <<>> ]

NoBinds == [m \in MACs |-> 0]

\* The counters of answered Bind exchanges after the datagrams in sent.
CountBinds(nb, sent) ==
    [ m \in DOMAIN nb |->
        LET bs == {i \in 1..Len(sent) : sent[i].t = "bind" /\ sent[i].mac = m /\ sent[i].ok}
        IN  Min(nb[m] + Cardinality(bs), MaxBindCount) ]

\* The state change of one GreeInternal::scan step s.
CommitScan(s) ==
    /\ scan_ts' = s.scan_ts
    /\ devices' = s.devices
    /\ now' = s.now
    /\ nbind' = IF s.ran THEN NoBinds ELSE nbind

\* Of the outcomes outs of a scan, those the client can meet when its receiver
\* thread is r: once an exchange has found the thread ended the channel is
\* empty for good, and every receive of a scan fails at once.
ScanMeets(outs, client, r) ==
    IF client = "sync" /\ r = "down"
    THEN { o \in outs : o.err = "Io" \/ (o.err = "" /\ o.replies = <<>>) }
    ELSE outs

\* The inputs of one GreeInternal::scan step: the network's answer and the time
\* the scan takes matter only if the scan runs.
ScanIns(forced) ==
    IF ScanAllowed(scan_ts, now, cfg, forced)
    THEN { <<out, d>> : out \in ScanMeets(ScanOuts, cfg.client, rx),
                        d \in {e \in 0..MaxScanTime : now + e <= MaxTime} }
    ELSE { << [err |-> "", replies |-> <<>>], 0 >> }

\* The inputs of one apply step: a Bind answer only if a Bind is sent, a Status
\* or Command answer only if the operation has a bag and the device is known.
BindIns(target) ==
    LET mac == Resolve(target)
    IN  IF mac \in DOMAIN devices /\ devices[mac].key = None
        THEN Meets(BindOuts, cfg.client, rx) ELSE { [err |-> "", key |-> ""] }

DataIns(target, op, bout) ==
    LET mac == Resolve(target)
    IN  IF mac \in DOMAIN devices /\ op # "Bind" /\ (devices[mac].key # None \/ bout.err = "")
        THEN Meets(DataOuts, cfg.client, rx)
        ELSE { [err |-> "", names |-> <<>>, vals |-> <<>>] }

\* --------------------------------------------------------------- config
Aliases == [a \in {"a1", "m2"} |-> IF a = "a1" THEN "m2" ELSE "m1"]

\* The configurations: min_scan_age below max_scan_age, over either client;
\* the two equal, and min_scan_age above max_scan_age (nothing at run time
\* rejects it), over the synchronous client.
Configs ==
    { [min_scan_age |-> 1, max_scan_age |-> MaxAge, aliases |-> Aliases, client |-> k] :
        k \in Clients }
    \cup { [min_scan_age |-> MaxAge, max_scan_age |-> a, aliases |-> Aliases,
            client |-> "sync"] : a \in {MaxAge, 1} }

\* -------------------------------------------------------------- actions
\* GreeInternal::new: empty registry, no scan yet.
Init ==
    /\ cfg \in Configs
    /\ now = 0
    /\ scan_ts = None
    /\ devices = EmptyMap
    /\ vars = EmptyMap
    /\ pc = "idle"
    /\ call = NoCall
    /\ nbind = NoBinds
    /\ queue = <<>> /\ wire = {} /\ rx = "up" /\ nreq = 0 /\ front = NoFront

\* Time passes: between calls, and inside a call while its first attempt is
\* under way (the clock is read next by the scan decision that follows it).
Tick ==
    /\ pc \in {"idle", "scan2", "wd2"}
    /\ now < MaxTime
    /\ now' = now + 1
    /\ UNCHANGED <<cfg, scan_ts, devices, vars, pc, call, nbind>>
    /\ UNCHANGED netvars

\* Gree::scan
GreeScan ==
    /\ pc = "idle"
    /\ \E in \in ScanIns(TRUE) :
         /\ LET s == scan(TRUE, in[1], in[2])
            IN  /\ CommitScan(s)
                /\ call' = [LogScan(StartCall("scan", "-", "-"), TRUE, s) EXCEPT !.result = s.r]
                /\ pc' = AfterOnlyScan(s.r).pc
    /\ vars' = EmptyMap
    /\ UNCHANGED cfg
    /\ UNCHANGED netvars

\* Gree::with_state
WithState ==
    /\ pc = "idle"
    /\ \E in \in ScanIns(FALSE) :
         /\ LET s == scan(FALSE, in[1], in[2])
            IN  /\ CommitScan(s)
                /\ call' = [LogScan(StartCall("with_state", "-", "-"), FALSE, s)
                              EXCEPT !.result = s.r]
                /\ pc' = AfterOnlyScan(s.r).pc
    /\ vars' = EmptyMap
    /\ UNCHANGED cfg
    /\ UNCHANGED netvars

\* Gree::with_device up to its first lookup: scan(false), then with_device.
WithDevice(target) ==
    /\ pc = "idle"
    /\ \E in \in ScanIns(FALSE) :
         /\ LET s == scan(FALSE, in[1], in[2])
                c == LogScan(StartCall("with_device_retrying", "-", target), FALSE, s)
                w == with_device(s.devices, target)
                n == Unwind(s.r, AfterScan(s.r, "wd1"))
            IN  /\ CommitScan(s)
                /\ IF n.pc # "wd1"
                   THEN pc' = n.pc /\ call' = [c EXCEPT !.result = n.result]
                   ELSE IF IsOk(w.r)
                   THEN /\ pc' = "done"
                        /\ call' = [c EXCEPT !.attempts = Append(@, w.r),
                                             !.result = w.r, !.ret = w.ret]
                   ELSE /\ pc' = "wd2"
                        /\ call' = [c EXCEPT !.attempts = Append(@, w.r)]
    /\ vars' = EmptyMap
    /\ UNCHANGED cfg
    /\ UNCHANGED netvars

\* with_device_retrying after a failed lookup: scan(true), then with_device.
WithDeviceRetry ==
    /\ pc = "wd2"
    /\ \E in \in ScanIns(TRUE) :
         /\ LET s == scan(TRUE, in[1], in[2])
                c == LogScan(call, TRUE, s)
                w == with_device(s.devices, call.target)
            IN  /\ CommitScan(s)
                /\ call' = IF IsOk(s.r)
                           THEN [c EXCEPT !.attempts = Append(@, w.r),
                                          !.result = w.r, !.ret = w.ret]
                           ELSE [c EXCEPT !.result = s.r]
                /\ pc' = AfterOnlyScan(s.r).pc
    /\ UNCHANGED <<cfg, vars>>
    /\ UNCHANGED netvars

\* Gree::bind, Gree::net_read, Gree::net_write and Gree::execute: each is
\* apply_retrying(target, op), here up to its first attempt: scan(false).
ApplyRetryingBegin(op, target, bag) ==
    /\ pc = "idle"
    /\ \E in \in ScanIns(FALSE) :
         /\ LET s == scan(FALSE, in[1], in[2])
                n == Unwind(s.r, AfterScan(s.r, "apply1"))
            IN  /\ CommitScan(s)
                /\ call' = [LogScan(StartCall("apply_retrying", op, target), FALSE, s)
                              EXCEPT !.result = n.result]
                /\ pc' = n.pc
    /\ vars' = bag
    /\ UNCHANGED cfg
    /\ UNCHANGED netvars

\* apply_retrying: the first apply.
ApplyFirst ==
    /\ pc = "apply1"
    /\ \E bout \in BindIns(call.target) : \E dout \in DataIns(call.target, call.op, bout) :
         LET a == apply(devices, call.target, call.op, vars, bout, dout)
             n == Unwind(a.r, AfterFirst(a.r))
         IN  /\ devices' = a.devices
             /\ vars' = a.vars
             /\ nbind' = CountBinds(nbind, a.sent)
             /\ call' = [LogApply(call, a) EXCEPT !.result = n.result]
             /\ pc' = n.pc
             /\ rx' = RxAfter(rx, a.r)
    /\ UNCHANGED <<cfg, now, scan_ts>>
    /\ UNCHANGED <<queue, wire, nreq, front>>

\* apply_retrying: scan(true) after a failed first apply.
ApplyRescan ==
    /\ pc = "scan2"
    /\ \E in \in ScanIns(TRUE) :
         /\ LET s == scan(TRUE, in[1], in[2])
                n == Unwind(s.r, AfterRescan(s.r))
            IN  /\ CommitScan(s)
                /\ call' = [LogScan(call, TRUE, s) EXCEPT !.result = n.result]
                /\ pc' = n.pc
    /\ UNCHANGED <<cfg, vars>>
    /\ UNCHANGED netvars

\* apply_retrying: the second apply.
ApplySecond ==
    /\ pc = "apply2"
    /\ \E bout \in BindIns(call.target) : \E dout \in DataIns(call.target, call.op, bout) :
         LET a == apply(devices, call.target, call.op, vars, bout, dout)
             n == Unwind(a.r, AfterSecond(a.r))
         IN  /\ devices' = a.devices
             /\ vars' = a.vars
             /\ nbind' = CountBinds(nbind, a.sent)
             /\ call' = [LogApply(call, a) EXCEPT !.result = n.result]
             /\ pc' = n.pc
             /\ rx' = RxAfter(rx, a.r)
    /\ UNCHANGED <<cfg, now, scan_ts>>
    /\ UNCHANGED <<queue, wire, nreq, front>>

\* The public call returns to its caller, who takes the result (and its bag).
Return ==
    /\ pc = "done"
    /\ pc' = "idle"
    /\ call' = NoCall
    /\ vars' = EmptyMap
    /\ UNCHANGED <<cfg, now, scan_ts, devices, nbind>>
    /\ UNCHANGED netvars

Next ==
    \/ Tick
    \/ Return
    \/ GreeScan
    \/ WithState
    \/ \E t \in Targets : WithDevice(t)
    \/ WithDeviceRetry
    \/ \E t \in Targets, o \in Ops : \E b \in OpBags(o) : ApplyRetryingBegin(o, t, b)
    \/ ApplyFirst
    \/ ApplyRescan
    \/ ApplySecond

Spec == Init /\ [][Next]_allvars

\* ------------------------------------------ operations under one config
\* The orchestrator of the synchronous client with the scan ages in their
\* usual order, min_scan_age below max_scan_age, and callers that scan, look a
\* device up, bind, read and write, by MAC and by alias.
ExecTargets == {"a1", "m1"}

ExecInit ==
    /\ Init
    /\ cfg.min_scan_age = 1 /\ cfg.max_scan_age = MaxAge
    /\ cfg.client = "sync"

ExecNext ==
    \/ Tick
    \/ Return
    \/ GreeScan
    \/ \E t \in ExecTargets : WithDevice(t)
    \/ WithDeviceRetry
    \/ \E t \in ExecTargets, o \in Ops : \E b \in OpBags(o) : ApplyRetryingBegin(o, t, b)
    \/ ApplyFirst
    \/ ApplyRescan
    \/ ApplySecond

ExecSpec == ExecInit /\ [][ExecNext]_allvars

\* ============================================ bags, taken on their own
\* A second specification: a caller builds a bag and applies net_read and
\* net_write to it, over and over, against a device that is found and bound.
\* Here vars is the caller's bag and call what the last operation did, which
\* the caller looks at (used) before going on with the bag.

\* The names callers use, one of them not in the catalog.
BuildNames == {"Pow", "Mod", "Zz"}
\* The literals callers use as values.
Literals == { <<>>, <<"0">>, <<"1">>, <<"2">>, <<"0", "1">>, <<"+", "1">>, <<"-", "1">>,
              <<"x">>, <<"2", "5", "5">>, <<"2", "5", "6">> }

\* The lists bags are built from: every single name (pair), and the short
\* lists over BuildNames.
NameLists == { <<n>> : n \in ALL \cup {"Zz"} } \cup SeqsUpTo(BuildNames, MaxPairs)
PairLists == { << <<x[1], x[2]>> >> : x \in (ALL \cup {"Zz"}) \X Literals }
             \cup SeqsUpTo(BuildNames \X {<<"1">>, <<"2">>, <<"x">>}, MaxPairs)

\* The pairs callers add to a bag they hold; they add to bags over BuildNames.
AddPairs == BuildNames \X {<<"1">>, <<"2">>, <<"x">>}

\* What the Status or Command exchange of one net_read / net_write meets.
BagDataOuts ==
    { [err |-> e, names |-> <<>>, vals |-> <<>>] : e \in AllExchangeErrors }
    \cup { [err |-> "", names |-> ns, vals |-> vs] :
             ns \in SeqsUpTo(BuildNames, MaxEcho), vs \in SeqsUpTo(Values, MaxEcho) }

NoOut == [err |-> "", names |-> <<>>, vals |-> <<>>]

\* The device the bag is read from and written to: scanned and bound.
BagMac == "m1"
BagDevices ==
    [ m \in {BagMac} |-> [ip |-> "ip1", scan_result |-> [mac |-> m, name |-> NameAt("ip1")],
                          key |-> Some("k1")] ]

\* What the last operation on the bag did.
BagCall(api, input, bag0, out, sent, r) ==
    [api |-> api, input |-> input, bag0 |-> bag0, out |-> out, sent |-> sent, result |-> r]

NoBagCall == BagCall("-", <<>>, EmptyMap, NoOut, <<>>, Pending)

BagInit ==
    /\ cfg \in {c \in Configs : c.min_scan_age = 1}
    /\ now = 0
    /\ scan_ts = Some(0)
    /\ devices = BagDevices
    /\ nbind = NoBinds
    /\ vars = EmptyMap
    /\ pc = "nobag"
    /\ call = NoBagCall
    /\ queue = <<>> /\ wire = {} /\ rx = "up" /\ nreq = 0 /\ front = NoFront

\* The caller's part of a build: keep the bag, or see the error.  The bag
\* bag0 the build began with was moved into it, so an error leaves no bag.
Built(api, input, bag0, b) ==
    /\ pc' = IF IsOk(b.r) THEN "used" ELSE "failed"
    /\ vars' = IF IsOk(b.r) THEN b.bag[1] ELSE EmptyMap
    /\ call' = BagCall(api, input, bag0, NoOut, <<>>, b.r)
    /\ UNCHANGED <<cfg, now, scan_ts, devices, nbind>>
    /\ UNCHANGED netvars

\* net_var_bag_from_names
BagFromNames(ns) ==
    /\ pc = "nobag"
    /\ Built("net_var_bag_from_names", ns, EmptyMap, net_var_bag_from_names(ns))

\* net_var_bag_from_nvs
BagFromNvs(nvs) ==
    /\ pc = "nobag"
    /\ Built("net_var_bag_from_nvs", nvs, EmptyMap, net_var_bag_from_nvs(nvs))

\* SimpleNetVar::add_n_to on the bag the caller holds: a slot for the name is
\* added, or the slot the bag has for it is replaced by a new one.
BagAddName(n) ==
    /\ pc = "bag"
    /\ Built("add_n_to", <<n>>, vars, add_n_to(vars, n))

\* SimpleNetVar::add_nv_to on the bag the caller holds.
BagAddNv(nv) ==
    /\ pc = "bag"
    /\ Built("add_nv_to", <<nv>>, vars, add_nv_to(vars, nv))

\* The answers that matter to an operation on the bag: none if it has no
\* pending slot.
BagIns(read) ==
    IF \E n \in DOMAIN vars : IF read THEN vars[n].net_read_pending
                                     ELSE vars[n].net_write_pending
    THEN Meets(BagDataOuts, cfg.client, rx) ELSE {NoOut}

\* GreeInternal::net_read on the caller's bag.
BagNetRead ==
    /\ pc = "bag"
    /\ \E out \in BagIns(TRUE) :
         LET o == net_read(BagMac, devices[BagMac], vars, out)
         IN  /\ vars' = o.vars
             /\ call' = BagCall("net_read", <<>>, vars, out, o.sent, o.r)
             /\ pc' = Unwind(o.r, [pc |-> "used", result |-> o.r]).pc
             /\ rx' = RxAfter(rx, o.r)
    /\ UNCHANGED <<cfg, now, scan_ts, devices, nbind>>
    /\ UNCHANGED <<queue, wire, nreq, front>>

\* GreeInternal::net_write on the caller's bag.
BagNetWrite ==
    /\ pc = "bag"
    /\ \E out \in BagIns(FALSE) :
         LET o == net_write(BagMac, devices[BagMac], vars, out)
         IN  /\ vars' = o.vars
             /\ call' = BagCall("net_write", <<>>, vars, out, o.sent, o.r)
             /\ pc' = Unwind(o.r, [pc |-> "used", result |-> o.r]).pc
             /\ rx' = RxAfter(rx, o.r)
    /\ UNCHANGED <<cfg, now, scan_ts, devices, nbind>>
    /\ UNCHANGED <<queue, wire, nreq, front>>

\* The caller sets a slot of the bag: SimpleNetVar::user_set on bag[n].
BagUserSet(n, v) ==
    /\ pc = "bag"
    /\ n \in DOMAIN vars
    /\ vars' = [vars EXCEPT ![n] = user_set(@, v)]
    /\ call' = BagCall("user_set", <<n, v>>, vars, NoOut, <<>>, Ok)
    /\ pc' = "used"
    /\ UNCHANGED <<cfg, now, scan_ts, devices, nbind>>
    /\ UNCHANGED netvars

\* The caller hands a slot of the bag a value as if it came from the network:
\* NetVar::net_set on bag[n].  Nothing is sent.
BagNetSet(n, v) ==
    /\ pc = "bag"
    /\ n \in DOMAIN vars
    /\ vars' = [vars EXCEPT ![n] = net_set(@, v)]
    /\ call' = BagCall("net_set", <<n, v>>, vars, NoOut, <<>>, Ok)
    /\ pc' = "used"
    /\ UNCHANGED <<cfg, now, scan_ts, devices, nbind>>
    /\ UNCHANGED netvars

\* The caller gives up the write of a slot of the bag:
\* NetVar::clear_net_write_pending on bag[n].  Nothing is sent.
BagClearWritePending(n) ==
    /\ pc = "bag"
    /\ n \in DOMAIN vars
    /\ vars' = [vars EXCEPT ![n] = clear_net_write_pending(@)]
    /\ call' = BagCall("clear_net_write_pending", <<n>>, vars, NoOut, <<>>, Ok)
    /\ pc' = "used"
    /\ UNCHANGED <<cfg, now, scan_ts, devices, nbind>>
    /\ UNCHANGED netvars

\* The caller has looked at what the operation did and keeps the bag.
BagKeep ==
    /\ pc = "used"
    /\ pc' = "bag"
    /\ call' = NoBagCall
    /\ UNCHANGED <<cfg, now, scan_ts, devices, nbind, vars>>
    /\ UNCHANGED netvars

\* The caller drops the bag (or the error).
BagDrop ==
    /\ pc \in {"bag", "failed"}
    /\ pc' = "nobag"
    /\ vars' = EmptyMap
    /\ call' = NoBagCall
    /\ UNCHANGED <<cfg, now, scan_ts, devices, nbind>>
    /\ UNCHANGED netvars

BagNext ==
    \/ \E ns \in NameLists : BagFromNames(ns)
    \/ \E nvs \in PairLists : BagFromNvs(nvs)
    \/ DOMAIN vars \subseteq BuildNames /\ \E n \in BuildNames : BagAddName(n)
    \/ DOMAIN vars \subseteq BuildNames /\ \E nv \in AddPairs : BagAddNv(nv)
    \/ BagNetRead
    \/ BagNetWrite
    \/ \E n \in BuildNames, v \in Values : BagUserSet(n, v)
    \/ \E n \in BuildNames, v \in Values : BagNetSet(n, v)
    \/ \E n \in BuildNames : BagClearWritePending(n)
    \/ BagKeep
    \/ BagDrop

BagSpec == BagInit /\ [][BagNext]_allvars

\* ------------------------------------------- scan replies, as received
\* The pack of a scan reply as it arrives: a JSON object whose members a
\* device may leave out.  Here the mac member is there or not, and so is the
\* name member (a bindok pack has none).
WirePacks ==
    LET names(ip) == {None, Some(NameAt(ip))}
    IN  UNION { { [ip |-> ip, mac |-> m, name |-> n] :
                    m \in {None} \cup {Some(x) : x \in MACs}, n \in names(ip) } :
                ip \in IPs }

\* Deserialising ScanResponsePack: a missing member takes its default, the
\* empty string.
ScanResponsePack(w) ==
    [mac |-> IF w.mac = None THEN "" ELSE w.mac[1],
     name |-> IF w.name = None THEN "" ELSE w.name[1]]

\* The replies of one scan: those of Replies, and those of a device at either
\* address whose pack has no mac member.
WireReplies ==
    { w \in WirePacks :
        \/ w.mac = None /\ w.name # None
        \/ [ip |-> w.ip, pack |-> ScanResponsePack(w)] \in Replies }

RECURSIVE handle_responses(_)
\* GreeClient::scan's loop: each reply is decoded and pushed with its address.
handle_responses(ws) ==
    IF ws = <<>> THEN <<>>
    ELSE << [ip |-> Head(ws).ip, pack |-> ScanResponsePack(Head(ws))] >>
           \o handle_responses(Tail(ws))

\* The targets of an operation: an alias, the MACs, and the empty string.
RegTargets == Targets \cup {""}

\* What GreeClient::scan returns: an error, or the replies as they arrived.
RegScanOuts ==
    { [err |-> e, replies |-> <<>>] : e \in {"Io"} \cup DecodeErrors }
    \cup { [err |-> "", replies |-> handle_responses(ws)] :
             ws \in SeqsUpTo(WireReplies, max_count) }

\* Gree::scan, with the replies taken as they arrive.
RegScan ==
    /\ pc = "idle"
    /\ \E out \in ScanMeets(RegScanOuts, cfg.client, rx) :
       \E d \in {e \in 0..MaxScanTime : now + e <= MaxTime} :
         LET s == scan(TRUE, out, d)
         IN  /\ CommitScan(s)
             /\ call' = [LogScan(StartCall("scan", "-", "-"), TRUE, s) EXCEPT !.result = s.r]
             /\ pc' = AfterOnlyScan(s.r).pc
    /\ vars' = EmptyMap
    /\ UNCHANGED cfg
    /\ UNCHANGED netvars

RegNext ==
    \/ Tick
    \/ Return
    \/ RegScan
    \/ \E t \in RegTargets : ApplyRetryingBegin("Bind", t, EmptyMap)
    \/ ApplyFirst
    \/ ApplyRescan
    \/ ApplySecond

RegSpec == Init /\ [][RegNext]_allvars

\* --------------------------------------- the low-level client, step by step
\* The state of the orchestrator and of what is above it, which the low-level
\* client does not touch.
orchvars == <<now, scan_ts, devices, vars, nbind, front>>

\* One datagram at the socket: its sender, the request it answers (0: none,
\* it is unsolicited), and how far it can be read.  "badjson" is no
\* GenericMessage; the others are, and differ by their pack: "ok" is JSON
\* encrypted with the generic key (a scan reply, the answer to a Bind),
\* "devkey" JSON encrypted with a device's key (the answer to a Status or a
\* Command), "notjson" something else encrypted with the generic key,
\* "notb64" no base64 text, "short" the base64 text of three bytes.
Datagram(src, re, q) == [src |-> src, re |-> re, q |-> q]

\* Unsolicited traffic: from either address messages that can be read, from
\* ip2 also those of every other kind (neither the receiver nor
\* handle_response looks at the sender).
Noise == { Datagram(ip, 0, "ok") : ip \in IPs }
         \cup { Datagram("ip2", 0, q) : q \in {"notjson", "notb64", "short", "badjson"} }

\* handle_response(addr, &gm.pack, GENERIC_KEY) as GreeClient::scan calls it on
\* a message of kind q: decode_response fails on a text that is not base64
\* and panics on one whose bytes are no whole blocks; what it decrypts with
\* the generic key is then parsed as JSON.
handle_response_generic(q) ==
    CASE q = "ok" -> Ok
      [] q = "notb64" -> Err("Base64Decode")
      [] q = "short" -> Panic
      [] OTHER -> Err("SerDe")

\* The two clients and the GreeClientConfig of each.
NetConfigs == { [client |-> k, max_count |-> n] : k \in {"sync", "async"}, n \in {max_count} }

\* One call of the low-level client: the address it talks to, the number of
\* its request, the key its request is encrypted with (the generic key, or
\* for a Status or a Command the device's), the receive attempts made, the scan replies pushed so far,
\* the message returned, whether a datagram of another sender was passed over
\* and whether the last receive timed out.
NetCall(api, ip, id) ==
    [ api |-> api, ip |-> ip, id |-> id, n |-> 0, rv |-> <<>>, got |-> None,
      skipped |-> FALSE, timedout |-> FALSE, result |-> Pending, key |-> "generic" ]

NoNetCall == NetCall("-", "-", 0)

\* Receiver::recv_timeout of the synchronous client: the head of the channel,
\* or RecvTimeout if nothing is there in time (or the receiver thread is gone).
recv_timeout(q) ==
    IF q # <<>> THEN [r |-> Ok, d |-> Some(Head(q)), queue |-> Tail(q)]
    ELSE [r |-> Err("RecvTimeout"), d |-> None, queue |-> q]

\* GreeClient::recv of the asynchronous client: the next datagram of the
\* socket, parsed, or ResponseTimeout if none arrives in time.
recv(q) ==
    IF q = <<>> THEN [r |-> Err("ResponseTimeout"), d |-> None, queue |-> q]
    ELSE IF Head(q).q = "badjson" THEN [r |-> Err("SerDe"), d |-> None, queue |-> Tail(q)]
    ELSE [r |-> Ok, d |-> Some(Head(q)), queue |-> Tail(q)]

\* One receive of the client at hand.
Recv(client, q) == IF client = "sync" THEN recv_timeout(q) ELSE recv(q)

\* A variant of the sender test that takes any sender.
SameSender_Any(ra, ip) == TRUE

\* exchange: `if ra.ip() == ip`
SameSender(ra, ip) == ra = ip

\* A variant of the scan loop that returns the receive error.
scan_recv_Fail(c, r, maxc) ==
    IF ~IsOk(r.r)
    THEN [pc |-> "done",
          call |-> [c EXCEPT !.n = @ + 1, !.timedout = (r.r[1] # "SerDe"), !.result = r.r]]
    ELSE IF ~IsOk(handle_response_generic(r.d[1].q))
    THEN [pc |-> IF handle_response_generic(r.d[1].q) = Panic THEN "aborted" ELSE "done",
          call |-> [c EXCEPT !.n = @ + 1, !.result = handle_response_generic(r.d[1].q)]]
    ELSE IF c.n + 1 = maxc
    THEN [pc |-> "done",
          call |-> [c EXCEPT !.n = @ + 1, !.rv = Append(@, r.d[1]), !.result = Ok]]
    ELSE [pc |-> "scanrecv", call |-> [c EXCEPT !.n = @ + 1, !.rv = Append(@, r.d[1])]]

\* GreeClient::scan, one turn of its loop with the receive result r: an error
\* of the receive ends the loop, a reply whose pack handle_response fails on
\* ends the scan with the error (or the panic), any other reply is pushed; the scan returns Ok(rv) when the
\* loop has ended or run max_count times.
scan_recv(c, r, maxc) ==
    IF ~IsOk(r.r)
    THEN [pc |-> "done",
          call |-> [c EXCEPT !.n = @ + 1, !.timedout = (r.r[1] # "SerDe"), !.result = Ok]]
    ELSE IF ~IsOk(handle_response_generic(r.d[1].q))
    THEN [pc |-> IF handle_response_generic(r.d[1].q) = Panic THEN "aborted" ELSE "done",
          call |-> [c EXCEPT !.n = @ + 1, !.result = handle_response_generic(r.d[1].q)]]
    ELSE IF c.n + 1 = maxc
    THEN [pc |-> "done",
          call |-> [c EXCEPT !.n = @ + 1, !.rv = Append(@, r.d[1]), !.result = Ok]]
    ELSE [pc |-> "scanrecv", call |-> [c EXCEPT !.n = @ + 1, !.rv = Append(@, r.d[1])]]

NetInit ==
    /\ cfg \in NetConfigs
    /\ now = 0
    /\ scan_ts = None
    /\ devices = EmptyMap
    /\ vars = EmptyMap
    /\ nbind = NoBinds
    /\ pc = "idle"
    /\ call = NoNetCall
    /\ queue = <<>> /\ wire = {} /\ rx = "up" /\ nreq = 0 /\ front = NoFront

\* A variant in which datagrams still reach the channel after the receiver
\* thread has ended.
Deliver_AfterEnd(d) ==
    IF cfg.client = "sync" /\ d.q = "badjson"
    THEN rx' = "down" /\ queue' = queue
    ELSE /\ Len(queue) < MaxQueue
         /\ queue' = Append(queue, d)
         /\ rx' = rx

\* A datagram reaches the socket.  The synchronous client's receiver thread
\* parses it and sends it down the channel, and ends on one it cannot parse
\* (recv_loop returns the error); the asynchronous client's socket keeps it
\* until the next recv.
Deliver(d) ==
    IF cfg.client = "sync"
    THEN /\ rx = "up"
         /\ IF d.q = "badjson"
            THEN rx' = "down" /\ queue' = queue
            ELSE Len(queue) < MaxQueue /\ queue' = Append(queue, d) /\ rx' = rx
    ELSE /\ Len(queue) < MaxQueue
         /\ queue' = Append(queue, d)
         /\ rx' = rx

\* A datagram on its way arrives (one that never does is lost).
NetArrive ==
    /\ \E d \in wire : wire' = wire \ {d} /\ Deliver(d)
    /\ UNCHANGED <<cfg, pc, call, nreq>>
    /\ UNCHANGED orchvars

\* Some sender's unsolicited datagram arrives.
NetNoise ==
    /\ \E d \in Noise : Deliver(d)
    /\ UNCHANGED <<cfg, pc, call, nreq, wire>>
    /\ UNCHANGED orchvars

\* GreeClient::exchange(ip, request) is called, by bind with a request
\* encrypted with the generic key, by getvars and setvars with one encrypted
\* with the device's key.
ExchangeBegin(ip, key) ==
    /\ pc = "idle"
    /\ nreq < MaxReq
    /\ nreq' = nreq + 1
    /\ call' = [NetCall("exchange", ip, nreq + 1) EXCEPT !.key = key]
    /\ pc' = IF cfg.client = "sync" THEN "drain" ELSE "send"
    /\ UNCHANGED <<cfg, queue, wire, rx>>
    /\ UNCHANGED orchvars

\* exchange of the synchronous client, one turn of its drain loop.
ExchangeDrain ==
    /\ pc = "drain"
    /\ IF queue # <<>>
       THEN queue' = Tail(queue) /\ pc' = "drain" /\ call' = call
       ELSE IF rx = "down"
       THEN /\ queue' = queue /\ pc' = "done"
            /\ call' = [call EXCEPT !.result = Err("ReceiverDisconnected")]
       ELSE queue' = queue /\ pc' = "send" /\ call' = call
    /\ UNCHANGED <<cfg, wire, rx, nreq>>
    /\ UNCHANGED orchvars

\* exchange: the request is sent, or the send fails; the device answers or
\* does not, and its answer is encrypted with the key of the request.
ExchangeSend ==
    /\ pc = "send"
    /\ \E out \in {"Io", "unanswered", "answered"} :
         /\ pc' = IF out = "Io" THEN "done" ELSE "recv"
         /\ call' = IF out = "Io" THEN [call EXCEPT !.result = Err("Io")] ELSE call
         /\ wire' = IF out = "answered"
                    THEN wire \cup {Datagram(call.ip, call.id,
                                              IF call.key = "generic" THEN "ok" ELSE "devkey")}
                    ELSE wire
    /\ UNCHANGED <<cfg, queue, rx, nreq>>
    /\ UNCHANGED orchvars

\* exchange, one turn of its receive loop.
ExchangeRecv ==
    /\ pc = "recv"
    /\ LET r == Recv(cfg.client, queue)
       IN  /\ queue' = r.queue
           /\ IF ~IsOk(r.r)
              THEN /\ pc' = "done"
                   /\ call' = [call EXCEPT !.n = 1, !.timedout = (r.r[1] # "SerDe"),
                                           !.result = r.r]
              ELSE IF SameSender(r.d[1].src, call.ip)
              THEN /\ pc' = "done"
                   /\ call' = [call EXCEPT !.n = 1, !.got = r.d, !.result = Ok]
              ELSE /\ pc' = "recv"
                   /\ call' = [call EXCEPT !.n = 1, !.skipped = TRUE]
    /\ UNCHANGED <<cfg, wire, rx, nreq>>
    /\ UNCHANGED orchvars

\* GreeClient::scan is called: the broadcast is sent, or the send fails; the
\* devices of some addresses answer.
ScanBegin ==
    /\ pc = "idle"
    /\ nreq < MaxReq
    /\ nreq' = nreq + 1
    /\ \E io \in BOOLEAN : \E S \in SUBSET IPs :
         /\ io => S = {}
         /\ pc' = IF io THEN "done" ELSE "scanrecv"
         /\ call' = [NetCall("scan", "bcast", nreq + 1)
                       EXCEPT !.result = IF io THEN Err("Io") ELSE Pending]
         /\ wire' = wire \cup {Datagram(ip, nreq + 1, "ok") : ip \in S}
    /\ UNCHANGED <<cfg, queue, rx>>
    /\ UNCHANGED orchvars

\* GreeClient::scan, one turn of its loop.
ScanRecv ==
    /\ pc = "scanrecv"
    /\ LET r == Recv(cfg.client, queue)
           n == scan_recv(call, r, cfg.max_count)
       IN  /\ queue' = r.queue
           /\ pc' = n.pc
           /\ call' = n.call
    /\ UNCHANGED <<cfg, wire, rx, nreq>>
    /\ UNCHANGED orchvars

\* The call returns to its caller.
NetReturn ==
    /\ pc = "done"
    /\ pc' = "idle"
    /\ call' = NoNetCall
    /\ UNCHANGED <<cfg, queue, wire, rx, nreq>>
    /\ UNCHANGED orchvars

\* A step of the client's own thread or task.
ClientStep == ExchangeDrain \/ ExchangeSend \/ ExchangeRecv \/ ScanRecv \/ NetReturn

NetNext ==
    \/ NetArrive
    \/ NetNoise
    \/ \E ip \in IPs, key \in {"generic", "device"} : ExchangeBegin(ip, key)
    \/ ExchangeDrain
    \/ ExchangeSend
    \/ ExchangeRecv
    \/ ScanBegin
    \/ ScanRecv
    \/ NetReturn

NetSpec == NetInit /\ [][NetNext]_allvars

\* The same, with the client's thread or task running as long as it has a
\* step to take.
NetLive == NetSpec /\ WF_allvars(ClientStep)

\* ----------------------------------- a client that listens for three replies
\* The GreeClientConfig of the end-to-end scenario.
E2EConfig == [client |-> "sync", max_count |-> 3]

\* A variant of the scan loop run that stops after its first turn.
ScanLoop_One(c, rs, maxc) ==
    IF rs = <<>> THEN c ELSE scan_recv(c, Head(rs), maxc).call

\* GreeClient::scan's loop run to its end on the receive results rs.
RECURSIVE ScanLoop(_, _, _)
ScanLoop(c, rs, maxc) ==
    IF rs = <<>> THEN c
    ELSE LET n == scan_recv(c, Head(rs), maxc)
         IN  IF n.pc # "scanrecv" THEN n.call ELSE ScanLoop(n.call, Tail(rs), maxc)

\* What arrives after the broadcast: the replies of Replies, and from ip1
\* messages whose pack handle_response fails on.
Arrival(ip, pack, q) == [ip |-> ip, pack |-> pack, q |-> q]
Arrivals ==
    { Arrival(r.ip, r.pack, "ok") : r \in Replies }
    \cup { Arrival("ip1", [mac |-> "", name |-> ""], q) : q \in {"notjson", "notb64", "short"} }

\* The arrivals of a scan whose replies are rs.
AsArrivals(rs) == [i \in 1..Len(rs) |-> Arrival(rs[i].ip, rs[i].pack, "ok")]

\* The receive results of one scan: the arrivals in rs, one after the other,
\* then a receive that times out.
Receives(rs) ==
    [ i \in 1..(Len(rs) + 1) |->
        IF i <= Len(rs)
        THEN [r |-> Ok, queue |-> <<>>,
              d |-> Some([src |-> rs[i].ip, re |-> 1, q |-> rs[i].q, pack |-> rs[i].pack])]
        ELSE recv_timeout(<<>>) ]

\* What GreeClient::scan returns: the error of a broadcast that cannot be
\* sent (io), or what its loop makes of those receive results.
E2EClientScan(io, rs) ==
    LET c == ScanLoop(NetCall("scan", "bcast", 1), Receives(rs), E2EConfig.max_count)
    IN  IF io THEN [err |-> "Io", replies |-> <<>>]
        ELSE [ err |-> IF IsOk(c.result) THEN "" ELSE c.result[1],
               replies |-> [i \in 1..Len(c.rv) |-> [ip |-> c.rv[i].src, pack |-> c.rv[i].pack]] ]

\* Gree::scan of that client: the broadcast cannot be sent, or up to three
\* messages are received (one that handle_response fails on is the last the
\* scan receives).
E2EScan ==
    /\ pc = "idle"
    /\ \E io \in BOOLEAN : \E rs \in SeqsUpTo(Arrivals, E2EConfig.max_count) :
       \E d \in {e \in 0..MaxScanTime : now + e <= MaxTime} :
         LET s == scan(TRUE, E2EClientScan(io, rs), d)
         IN  /\ io \/ rx = "down" => rs = <<>>
             /\ \A i \in 1..(Len(rs) - 1) : rs[i].q = "ok"
             /\ CommitScan(s)
             /\ call' = [LogScan(StartCall("scan", "-", "-"), TRUE, s) EXCEPT !.result = s.r]
             /\ pc' = AfterOnlyScan(s.r).pc
    /\ vars' = EmptyMap
    /\ UNCHANGED cfg
    /\ UNCHANGED netvars

E2ENext ==
    \/ Tick
    \/ Return
    \/ E2EScan
    \/ \E t \in ExecTargets : \E b \in ReadBags : ApplyRetryingBegin("NetRead", t, b)
    \/ ApplyFirst
    \/ ApplyRescan
    \/ ApplySecond

\* The orchestrator of ExecInit over that client.
E2ESpec == ExecInit /\ [][E2ENext]_allvars

\* ------------------------------------------------ the encrypted envelope
\* Bytes are the integers 0..255, a byte string is a sequence of them.  A
\* base64 text is a sequence of character codes: 0..63 for the characters of
\* the standard alphabet in order (A-Z, a-z, 0-9, +, /), B64Pad for '=',
\* B64Bad for a character outside the alphabet.
blocksize == 16

B64Pad == 64
B64Bad == 65

\* n bytes, a and b in turn.
Alt(a, b, n) == [i \in 1..n |-> IF i % 2 = 1 THEN a ELSE b]

\* GENERIC_KEY.as_bytes()
GenericKeyBytes == <<97, 51, 75, 56, 66, 120, 37, 50, 114, 56, 89, 55, 35, 120, 68, 104>>

\* serde_json::to_vec of the StatusRequestPack for Pow of the device m1:
\* {"cols":["Pow"],"mac":"m1","t":"status"}
StatusRequestPack == <<123, 34, 99, 111, 108, 115, 34, 58, 91, 34, 80, 111, 119, 34, 93, 44, 34, 109, 97, 99, 34, 58, 34, 109, 49, 34, 44, 34, 116, 34, 58, 34, 115, 116, 97, 116, 117, 115, 34, 125>>

\* The keys a bindok pack may carry: the right length, one byte short, one
\* byte long, empty.
WireKeys == {Alt(107, 49, n) : n \in {0, blocksize - 1, blocksize, blocksize + 1}}

\* Payloads: byte strings of every length up to MaxBlocks blocks and one
\* byte, of ASCII text, of the bytes 1 and 16 (which look like padding), of
\* two-byte UTF-8 characters, and of bytes that no UTF-8 text contains.
BytePatterns == {<<65, 65>>, <<1, 1>>, <<16, 16>>, <<195, 169>>, <<255, 255>>, <<65, 255>>}
Payloads == {Alt(p[1], p[2], n) : p \in BytePatterns, n \in 0..(MaxBlocks * blocksize + 1)}
            \cup {StatusRequestPack}

\* The block cipher: Aes128 of the aes crate, FIPS-197 with a key of 16
\* bytes.  A block and a round key are 16 bytes in the order they come in, the
\* byte of row r and column c of the state at place r + 4c + 1.
\* The exclusive or of two strings of n bits.
RECURSIVE XorBits(_, _, _)
XorBits(a, b, n) ==
    IF n = 0 THEN 0
    ELSE ((a + b) % 2) + 2 * XorBits(a \div 2, b \div 2, n - 1)

\* The exclusive or of two bytes, looked up: a and b at places a + 1, b + 1.
XorTable ==
    SubSeq([a \in 1..256 |-> SubSeq([b \in 1..256 |-> XorBits(a - 1, b - 1, 8)], 1, 256)],
           1, 256)

Xor(a, b) == XorTable[a + 1][b + 1]

\* x times the polynomial x in GF(2^8) modulo x^8 + x^4 + x^3 + x + 1.
XTime(a) == IF a >= 128 THEN Xor(2 * a - 256, 27) ELSE 2 * a

\* The products MixColumns and its inverse need: k times x in GF(2^8).
GMul(k, x) ==
    LET x2 == XTime(x)
        x4 == XTime(x2)
        x8 == XTime(x4)
    IN  CASE k = 1  -> x
          [] k = 2  -> x2
          [] k = 3  -> Xor(x2, x)
          [] k = 9  -> Xor(x8, x)
          [] k = 11 -> Xor(Xor(x8, x2), x)
          [] k = 13 -> Xor(Xor(x8, x4), x)
          [] k = 14 -> Xor(Xor(x8, x4), x2)

\* The S-box and its inverse, entry x at place x + 1.
SBOX ==
    << 99, 124, 119, 123, 242, 107, 111, 197, 48, 1, 103, 43, 254, 215, 171, 118,
       202, 130, 201, 125, 250, 89, 71, 240, 173, 212, 162, 175, 156, 164, 114, 192,
       183, 253, 147, 38, 54, 63, 247, 204, 52, 165, 229, 241, 113, 216, 49, 21,
       4, 199, 35, 195, 24, 150, 5, 154, 7, 18, 128, 226, 235, 39, 178, 117,
       9, 131, 44, 26, 27, 110, 90, 160, 82, 59, 214, 179, 41, 227, 47, 132,
       83, 209, 0, 237, 32, 252, 177, 91, 106, 203, 190, 57, 74, 76, 88, 207,
       208, 239, 170, 251, 67, 77, 51, 133, 69, 249, 2, 127, 80, 60, 159, 168,
       81, 163, 64, 143, 146, 157, 56, 245, 188, 182, 218, 33, 16, 255, 243, 210,
       205, 12, 19, 236, 95, 151, 68, 23, 196, 167, 126, 61, 100, 93, 25, 115,
       96, 129, 79, 220, 34, 42, 144, 136, 70, 238, 184, 20, 222, 94, 11, 219,
       224, 50, 58, 10, 73, 6, 36, 92, 194, 211, 172, 98, 145, 149, 228, 121,
       231, 200, 55, 109, 141, 213, 78, 169, 108, 86, 244, 234, 101, 122, 174, 8,
       186, 120, 37, 46, 28, 166, 180, 198, 232, 221, 116, 31, 75, 189, 139, 138,
       112, 62, 181, 102, 72, 3, 246, 14, 97, 53, 87, 185, 134, 193, 29, 158,
       225, 248, 152, 17, 105, 217, 142, 148, 155, 30, 135, 233, 206, 85, 40, 223,
       140, 161, 137, 13, 191, 230, 66, 104, 65, 153, 45, 15, 176, 84, 187, 22 >>

INV_SBOX ==
    << 82, 9, 106, 213, 48, 54, 165, 56, 191, 64, 163, 158, 129, 243, 215, 251,
       124, 227, 57, 130, 155, 47, 255, 135, 52, 142, 67, 68, 196, 222, 233, 203,
       84, 123, 148, 50, 166, 194, 35, 61, 238, 76, 149, 11, 66, 250, 195, 78,
       8, 46, 161, 102, 40, 217, 36, 178, 118, 91, 162, 73, 109, 139, 209, 37,
       114, 248, 246, 100, 134, 104, 152, 22, 212, 164, 92, 204, 93, 101, 182, 146,
       108, 112, 72, 80, 253, 237, 185, 218, 94, 21, 70, 87, 167, 141, 157, 132,
       144, 216, 171, 0, 140, 188, 211, 10, 247, 228, 88, 5, 184, 179, 69, 6,
       208, 44, 30, 143, 202, 63, 15, 2, 193, 175, 189, 3, 1, 19, 138, 107,
       58, 145, 17, 65, 79, 103, 220, 234, 151, 242, 207, 206, 240, 180, 230, 115,
       150, 172, 116, 34, 231, 173, 53, 133, 226, 249, 55, 232, 28, 117, 223, 110,
       71, 241, 26, 113, 29, 41, 197, 137, 111, 183, 98, 14, 170, 24, 190, 27,
       252, 86, 62, 75, 198, 210, 121, 32, 154, 219, 192, 254, 120, 205, 90, 244,
       31, 221, 168, 51, 136, 7, 199, 49, 177, 18, 16, 89, 39, 128, 236, 95,
       96, 81, 127, 169, 25, 181, 74, 13, 45, 229, 122, 159, 147, 201, 156, 239,
       160, 224, 59, 77, 174, 42, 245, 176, 200, 235, 187, 60, 131, 83, 153, 97,
       23, 43, 4, 126, 186, 119, 214, 38, 225, 105, 20, 99, 85, 33, 12, 125 >>

\* The round constants.
RCON == <<1, 2, 4, 8, 16, 32, 64, 128, 27, 54>>

\* The key schedule, one step: the round key that follows round key k, rc
\* the round constant.
NextRoundKey(k, rc) ==
    LET a == Xor(k[1], Xor(SBOX[k[14] + 1], rc))
        b == Xor(k[2], SBOX[k[15] + 1])
        c == Xor(k[3], SBOX[k[16] + 1])
        d == Xor(k[4], SBOX[k[13] + 1])
        w1 == << a, b, c, d >>
        w2 == << Xor(k[5], a), Xor(k[6], b), Xor(k[7], c), Xor(k[8], d) >>
        w3 == << Xor(k[9], w2[1]), Xor(k[10], w2[2]), Xor(k[11], w2[3]), Xor(k[12], w2[4]) >>
        w4 == << Xor(k[13], w3[1]), Xor(k[14], w3[2]), Xor(k[15], w3[3]), Xor(k[16], w3[4]) >>
    IN  w1 \o w2 \o w3 \o w4

\* The key schedule: the 11 round keys one after the other, grown from the
\* key.
RECURSIVE KeyExpansion(_)
KeyExpansion(w) ==
    LET n  == Len(w) \div 16
        nk == NextRoundKey(SubSeq(w, Len(w) - 15, Len(w)), RCON[n])
    IN  IF n = 11 THEN w
        ELSE IF Len(nk) = 16 THEN KeyExpansion(w \o nk)
        ELSE <<>>

AddRoundKey(s, w, r) == SubSeq([i \in 1..16 |-> Xor(s[i], w[16 * r + i])], 1, 16)

SubBytes(s) == SubSeq([i \in 1..16 |-> SBOX[s[i] + 1]], 1, 16)

InvSubBytes(s) == SubSeq([i \in 1..16 |-> INV_SBOX[s[i] + 1]], 1, 16)

\* Row r of the state moves r columns to the left.
ShiftRows(s) ==
    SubSeq([i \in 1..16 |-> LET r == (i - 1) % 4  c == (i - 1) \div 4
                            IN  s[r + 4 * ((c + r) % 4) + 1]], 1, 16)

InvShiftRows(s) ==
    SubSeq([i \in 1..16 |-> LET r == (i - 1) % 4  c == (i - 1) \div 4
                            IN  s[r + 4 * ((c + 4 - r) % 4) + 1]], 1, 16)

\* Every column multiplied by the matrix whose first row is m.
MixWith(s, m) ==
    SubSeq([i \in 1..16 |->
              LET r == (i - 1) % 4
                  c == 4 * ((i - 1) \div 4)
                  a(k) == s[c + ((r + k) % 4) + 1]
              IN  Xor(Xor(GMul(m[1], a(0)), GMul(m[2], a(1))),
                      Xor(GMul(m[3], a(2)), GMul(m[4], a(3))))], 1, 16)

MixColumns(s) == MixWith(s, <<2, 3, 1, 1>>)

InvMixColumns(s) == MixWith(s, <<14, 11, 13, 9>>)

\* The rounds r..10 of the cipher on state s.
RECURSIVE EncryptRounds(_, _, _)
EncryptRounds(s, w, r) ==
    LET t == ShiftRows(SubBytes(s))
        n == AddRoundKey(IF r = 10 THEN t ELSE MixColumns(t), w, r)
    IN  IF r = 10 \/ Len(n) # 16 THEN n ELSE EncryptRounds(n, w, r + 1)

\* The rounds r..0 of the inverse cipher on state s.
RECURSIVE DecryptRounds(_, _, _)
DecryptRounds(s, w, r) ==
    LET t == AddRoundKey(InvSubBytes(InvShiftRows(s)), w, r)
        n == IF r = 0 THEN t ELSE InvMixColumns(t)
    IN  IF r = 0 \/ Len(n) # 16 THEN n ELSE DecryptRounds(n, w, r - 1)

\* Aes128::new(key).encrypt_block(block)
encrypt_block(key, block) ==
    LET w == KeyExpansion(key)
    IN  EncryptRounds(AddRoundKey(block, w, 0), w, 1)

\* Aes128::new(key).decrypt_block(block)
decrypt_block(key, block) ==
    LET w == KeyExpansion(key)
    IN  DecryptRounds(AddRoundKey(block, w, 10), w, 9)

\* encode_request's loop over the blocks of the padded payload.
RECURSIVE EncryptBlocks(_, _)
EncryptBlocks(key, payload) ==
    IF payload = <<>> THEN <<>>
    ELSE encrypt_block(key, SubSeq(payload, 1, blocksize))
           \o EncryptBlocks(key, SubSeq(payload, blocksize + 1, Len(payload)))

\* decode_response's loop over the blocks of a payload of whole blocks.
RECURSIVE DecryptBlocks(_, _)
DecryptBlocks(key, payload) ==
    IF payload = <<>> THEN <<>>
    ELSE decrypt_block(key, SubSeq(payload, 1, blocksize))
           \o DecryptBlocks(key, SubSeq(payload, blocksize + 1, Len(payload)))

\* general_purpose::STANDARD.encode
RECURSIVE b64_encode(_)
b64_encode(bs) ==
    IF bs = <<>> THEN <<>>
    ELSE LET n == bs[1] * 65536 + (IF Len(bs) >= 2 THEN bs[2] * 256 ELSE 0)
                    + (IF Len(bs) >= 3 THEN bs[3] ELSE 0)
             q == << n \div 262144, (n \div 4096) % 64,
                     IF Len(bs) >= 2 THEN (n \div 64) % 64 ELSE B64Pad,
                     IF Len(bs) >= 3 THEN n % 64 ELSE B64Pad >>
         IN  IF Len(bs) <= 3 THEN q ELSE q \o b64_encode(SubSeq(bs, 4, Len(bs)))

\* general_purpose::STANDARD.decode: whole quads of alphabet characters, the
\* last one padded canonically, no bits left over.  The empty result with
\* ok = FALSE stands for a DecodeError.
RECURSIVE b64_decode(_)
b64_decode(t) ==
    IF t = <<>> THEN [ok |-> TRUE, bytes |-> <<>>]
    ELSE IF Len(t) < 4 \/ t[1] >= B64Pad \/ t[2] >= B64Pad
    THEN [ok |-> FALSE, bytes |-> <<>>]
    ELSE IF Len(t) > 4
    THEN IF t[3] >= B64Pad \/ t[4] >= B64Pad THEN [ok |-> FALSE, bytes |-> <<>>]
         ELSE LET n == t[1] * 262144 + t[2] * 4096 + t[3] * 64 + t[4]
                  r == b64_decode(SubSeq(t, 5, Len(t)))
              IN  [ok |-> r.ok,
                   bytes |-> IF r.ok THEN <<n \div 65536, (n \div 256) % 256, n % 256>> \o r.bytes
                             ELSE <<>>]
    ELSE LET pads == IF t[3] = B64Pad /\ t[4] = B64Pad THEN 2
                     ELSE IF t[3] < B64Pad /\ t[4] = B64Pad THEN 1
                     ELSE IF t[3] < B64Pad /\ t[4] < B64Pad THEN 0
                     ELSE 3
             n    == t[1] * 262144 + t[2] * 4096
                       + (IF pads <= 1 THEN t[3] * 64 ELSE 0)
                       + (IF pads = 0 THEN t[4] ELSE 0)
         IN  IF pads = 3 \/ (pads = 2 /\ n % 65536 # 0) \/ (pads = 1 /\ n % 256 # 0)
             THEN [ok |-> FALSE, bytes |-> <<>>]
             ELSE [ok |-> TRUE,
                   bytes |-> SubSeq(<<n \div 65536, (n \div 256) % 256, n % 256>>, 1, 3 - pads)]

\* String::from_utf8_lossy(..).to_string(), as the bytes of the String: the
\* well-formed UTF-8 sequences as they are, every maximal ill-formed
\* subsequence replaced by U+FFFD.
Utf8Width(b) ==
    IF b < 128 THEN 1
    ELSE IF b \in 194..223 THEN 2
    ELSE IF b \in 224..239 THEN 3
    ELSE IF b \in 240..244 THEN 4
    ELSE 0

Utf8Second(lead, b) ==
    CASE lead = 224 -> b \in 160..191
      [] lead = 237 -> b \in 128..159
      [] lead = 240 -> b \in 144..191
      [] lead = 244 -> b \in 128..143
      [] OTHER      -> b \in 128..191

\* The number of bytes of the well-formed sequence at the head of bs, or
\* minus the number of bytes of the ill-formed subsequence there.
Utf8Head(bs) ==
    LET w == Utf8Width(bs[1])
        good(i) == i <= Len(bs) /\ (IF i = 2 THEN Utf8Second(bs[1], bs[2]) ELSE bs[i] \in 128..191)
    IN  IF w = 0 THEN 0 - 1
        ELSE IF w = 1 THEN 1
        ELSE IF ~good(2) THEN 0 - 1
        ELSE IF w = 2 THEN 2
        ELSE IF ~good(3) THEN 0 - 2
        ELSE IF w = 3 THEN 3
        ELSE IF ~good(4) THEN 0 - 3
        ELSE 4

REPLACEMENT_CHARACTER == <<239, 191, 189>>

RECURSIVE from_utf8_lossy(_)
from_utf8_lossy(bs) ==
    IF bs = <<>> THEN <<>>
    ELSE LET h == Utf8Head(bs)
         IN  IF h > 0 THEN SubSeq(bs, 1, h) \o from_utf8_lossy(SubSeq(bs, h + 1, Len(bs)))
             ELSE REPLACEMENT_CHARACTER \o from_utf8_lossy(SubSeq(bs, 1 - h, Len(bs)))

\* A variant of the padding that adds nothing to a payload of whole blocks.
pkcs7_pad_NoFullBlock(payload) ==
    LET pad_len == (blocksize - (Len(payload) % blocksize)) % blocksize
    IN  payload \o [i \in 1..pad_len |-> pad_len]

\* pkcs7_pad(payload, 16)
pkcs7_pad(payload) ==
    LET pad_len == blocksize - (Len(payload) % blocksize)
    IN  payload \o [i \in 1..pad_len |-> pad_len]

\* pkcs7_unpad: pop as many bytes as the last byte says, as far as there are.
pkcs7_unpad(payload) ==
    IF payload = <<>> THEN payload
    ELSE LET b == payload[Len(payload)]
         IN  SubSeq(payload, 1, IF b >= Len(payload) THEN 0 ELSE Len(payload) - b)

\* encode_request: the base64 text, or a panic in
\* GenericArray::clone_from_slice when the key is not of 16 bytes.
encode_request(payload, key) ==
    IF Len(key) # blocksize THEN [r |-> Panic, text |-> <<>>]
    ELSE [r |-> Ok, text |-> b64_encode(EncryptBlocks(key, pkcs7_pad(payload)))]

\* decode_response: the String's bytes, Error::Base64Decode, or a panic: in
\* GenericArray::clone_from_slice when the key is not of 16 bytes, in the
\* slice payload[pos..pos+blocksize] when the text decodes to a length that
\* is not a multiple of blocksize.
decode_response(pack, key) ==
    IF Len(key) # blocksize THEN [r |-> Panic, string |-> <<>>]
    ELSE LET d == b64_decode(pack)
         IN  IF ~d.ok THEN [r |-> Err("Base64Decode"), string |-> <<>>]
             ELSE IF Len(d.bytes) % blocksize # 0 THEN [r |-> Panic, string |-> <<>>]
             ELSE [r |-> Ok,
                   string |-> from_utf8_lossy(pkcs7_unpad(DecryptBlocks(key, d.bytes)))]

\* status_request: the pack is serialized, then encoded with the key.
status_request(mac, key, pack) == encode_request(pack, key)

\* The texts a datagram's pack field may hold: the encoding of some bytes, or
\* such a text with its last character missing, with a character outside the
\* alphabet at its end, or with bits left over in its last character.
Packs ==
    LET good == {b64_encode(bs) : bs \in Payloads}
    IN  good \cup {SubSeq(t, 1, Len(t) - 1) : t \in good \ {<<>>}}
             \cup {Append(SubSeq(t, 1, Len(t) - 1), B64Bad) : t \in good \ {<<>>}}
             \cup {<<16, 17, B64Pad, B64Pad>>, <<16, B64Pad, 16, 16>>, <<B64Pad, B64Pad, B64Pad, B64Pad>>}

\* A record of one envelope operation.
EnvCall(api, input, key, out) ==
    [api |-> api, input |-> input, key |-> key, out |-> out]

\* After a scan that found the device m1, nothing is bound.
EnvInit ==
    /\ cfg \in {c \in Configs : c.min_scan_age < c.max_scan_age /\ c.client = "sync"}
    /\ now = 0
    /\ scan_ts = Some(0)
    /\ devices = scan_ind(<< [ip |-> "ip1", pack |-> [mac |-> "m1", name |-> NameAt("ip1")]] >>)
    /\ vars = EmptyMap
    /\ pc = "idle"
    /\ call = EnvCall("-", <<>>, <<>>, [r |-> Pending])
    /\ nbind = NoBinds
    /\ queue = <<>> /\ wire = {} /\ rx = "up" /\ nreq = 0 /\ front = NoFront

\* The key in use: the generic key, or the key stored for m1.
EnvKeys == {GenericKeyBytes} \cup {devices["m1"].key[i] : i \in 1..Len(devices["m1"].key)}

\* The pc after an operation: a panic ends the program.
EnvAfter(out) == IF out.r = Panic THEN "aborted" ELSE "done"

\* encode_request on some payload.
EnvEncode ==
    /\ pc = "idle"
    /\ \E payload \in Payloads : \E key \in EnvKeys :
         LET out == encode_request(payload, key)
         IN  /\ call' = EnvCall("encode_request", payload, key, out)
             /\ pc' = EnvAfter(out)
    /\ UNCHANGED <<cfg, now, scan_ts, devices, vars, nbind>>
    /\ UNCHANGED netvars

\* decode_response on what the last encode_request returned, same key.
EnvDecodeOwn ==
    /\ pc = "done" /\ call.api = "encode_request"
    /\ LET out == decode_response(call.out.text, call.key)
       IN  /\ call' = EnvCall("decode_own", call.input, call.key, out)
           /\ pc' = EnvAfter(out)
    /\ UNCHANGED <<cfg, now, scan_ts, devices, vars, nbind>>
    /\ UNCHANGED netvars

\* decode_response on the pack of some datagram.
EnvDecode ==
    /\ pc = "idle"
    /\ \E pack \in Packs : \E key \in EnvKeys :
         LET out == decode_response(pack, key)
         IN  /\ call' = EnvCall("decode_response", pack, key, out)
             /\ pc' = EnvAfter(out)
    /\ UNCHANGED <<cfg, now, scan_ts, devices, vars, nbind>>
    /\ UNCHANGED netvars

\* A bindok pack arrives for m1 and bind_ind stores its key.
EnvBind ==
    /\ pc = "idle"
    /\ devices["m1"].key = None
    /\ \E k \in WireKeys :
         /\ devices' = [devices EXCEPT !["m1"] = bind_ind(@, [t |-> "bindok", mac |-> "m1", key |-> k])]
         /\ call' = EnvCall("bind", k, GenericKeyBytes, [r |-> Ok])
    /\ pc' = "done"
    /\ UNCHANGED <<cfg, now, scan_ts, vars, nbind>>
    /\ UNCHANGED netvars

\* getvars of the bound device m1 builds its Status request with the stored key.
EnvStatus ==
    /\ pc = "idle"
    /\ devices["m1"].key # None
    /\ LET key == devices["m1"].key[1]
           out == status_request("m1", key, StatusRequestPack)
       IN  /\ call' = EnvCall("status_request", StatusRequestPack, key, out)
           /\ pc' = EnvAfter(out)
    /\ UNCHANGED <<cfg, now, scan_ts, devices, vars, nbind>>
    /\ UNCHANGED netvars

\* The operation returns to its caller.
EnvReturn ==
    /\ pc = "done"
    /\ pc' = "idle"
    /\ call' = EnvCall("-", <<>>, <<>>, [r |-> Pending])
    /\ UNCHANGED <<cfg, now, scan_ts, devices, vars, nbind>>
    /\ UNCHANGED netvars

EnvNext ==
    \/ EnvEncode
    \/ EnvDecodeOwn
    \/ EnvDecode
    \/ EnvBind
    \/ EnvStatus
    \/ EnvReturn

EnvSpec == EnvInit /\ [][EnvNext]_allvars

\* ------------------------------------------ callers that only look devices up
\* Gree::scan, Gree::with_state and Gree::with_device, and time passing.
LookupNext ==
    \/ Tick
    \/ GreeScan
    \/ WithState
    \/ \E t \in Targets : WithDevice(t)
    \/ WithDeviceRetry
    \/ Return

LookupSpec == Init /\ [][LookupNext]_allvars

\* ----------------------------------------------------- the HTTP front ends
\* Two request handlers share one orchestrator.  In async_tool each handler is
\* a task that locks Arc<Mutex<Gree>>; sync_tool has no lock: its requests are
\* taken one after the other by the loop over server.incoming_requests(),
\* which passes &mut gree to make_response.  Time passes between the requests
\* and inside them.
Handlers == {"h1", "h2"}
FrontTargets == {"a1"}

\* The URLs requested: /scan, /dev, /dev/<target>, /dev/<target>/get?<names>
\* and /dev/<target>/set?<name=value pairs>, with names and values that build
\* a bag and others that do not.
NoReq == [kind |-> "-", target |-> "-", arg |-> <<>>]
FrontRequests ==
    { [kind |-> k, target |-> "-", arg |-> <<>>] : k \in {"scan", "dev"} }
    \cup { [kind |-> "devinfo", target |-> t, arg |-> <<>>] : t \in FrontTargets }
    \cup { [kind |-> "get", target |-> t, arg |-> <<n>>] : t \in FrontTargets, n \in {"Pow", "Zz"} }
    \cup { [kind |-> "set", target |-> t, arg |-> << <<"Pow", v>> >>] :
             t \in FrontTargets, v \in {<<"1">>, <<"2">>} }

\* A handler: where it is ("idle", "waiting" for the orchestrator, "in" an
\* operation on it, "in2" the second operation of /scan), its request, and the
\* error and status of its last response.
Handler(at, req, err, status) == [at |-> at, req |-> req, err |-> err, status |-> status]

\* owner: the handler whose request the orchestrator is working on; lock: the
\* holder of the Mutex of async_tool (sync_tool has none).
NewFront(kind) ==
    [kind |-> kind, owner |-> "-", lock |-> "-",
     h |-> [i \in Handlers |-> Handler("idle", NoReq, "-", 0)]]

\* parse_request_uri of sync_tool, the routes of async_tool: the request a
\* URL stands for.  sync_tool has none for /dev/<target>.
parse_request_uri(kind, req) ==
    IF kind = "sync" /\ req.kind = "devinfo" THEN None ELSE Some(req)

\* The bag a get or set request builds before the operation.
FrontBag(req) ==
    CASE req.kind = "get" -> net_var_bag_from_names(req.arg)
      [] req.kind = "set" -> net_var_bag_from_nvs(req.arg)
      [] OTHER -> [r |-> Ok, bag |-> Some(EmptyMap)]

\* A variant of the lock that is given to whoever asks.
CanLock_Always(holder) == TRUE

\* Mutex::lock returns when nobody holds the Mutex.
CanLock(holder) == holder = "-"

\* The next turn of the loop over incoming_requests: the request before has
\* been responded to.
LoopTurn(owner) == owner = "-"

\* The error a handler sees: the variant of the operation's error.
FrontErr(kind, r) == IF IsOk(r) THEN "-" ELSE r[1]

\* A variant of the status mapping that answers 400 to every error.
StatusOf_BadRequest(err) == IF err = "-" THEN 200 ELSE 400

\* The status of a response: 200, or by the error's variant.
StatusOf(err) ==
    CASE err = "-" -> 200
      [] err = "NotFound" -> 404
      [] err \in {"Io", "ResponseTimeout", "RecvTimeout"} -> 503
      [] OTHER -> 400

FrontInit ==
    /\ cfg \in {c \in Configs : c.min_scan_age < c.max_scan_age}
    /\ now = 0
    /\ scan_ts = None
    /\ devices = EmptyMap
    /\ vars = EmptyMap
    /\ pc = "idle"
    /\ call = NoCall
    /\ nbind = NoBinds
    /\ queue = <<>> /\ wire = {} /\ rx = "up" /\ nreq = 0
    /\ front = NewFront(cfg.client)

\* A request arrives and its handler starts.
FrontRequest(i, req) ==
    /\ front.h[i].at = "idle"
    /\ front' = [front EXCEPT !.h[i] = Handler("waiting", req, "-", 0)]
    /\ UNCHANGED <<cfg, now, scan_ts, devices, vars, pc, call, nbind, queue, wire, rx, nreq>>

\* A get or set whose bag cannot be built is answered without the
\* orchestrator: by the handler's task in async_tool, in its turn of the loop
\* in sync_tool.
FrontReject(i) ==
    /\ front.h[i].at = "waiting"
    /\ parse_request_uri(front.kind, front.h[i].req) # None
    /\ front.kind = "sync" => LoopTurn(front.owner)
    /\ LET b   == FrontBag(front.h[i].req)
           err == FrontErr(front.kind, b.r)
       IN  /\ ~IsOk(b.r)
           /\ front' = [front EXCEPT !.h[i] = Handler("idle", NoReq, err, StatusOf(err))]
    /\ UNCHANGED <<cfg, now, scan_ts, devices, vars, pc, call, nbind, queue, wire, rx, nreq>>

\* sync_tool answers a URL that is no request of its own with 400 and the
\* text "invalid request", in its turn of the loop, without the orchestrator.
FrontInvalid(i) ==
    /\ front.h[i].at = "waiting"
    /\ parse_request_uri(front.kind, front.h[i].req) = None
    /\ LoopTurn(front.owner)
    /\ front' = [front EXCEPT !.h[i] = Handler("idle", NoReq, "invalid request", 400)]
    /\ UNCHANGED <<cfg, now, scan_ts, devices, vars, pc, call, nbind, queue, wire, rx, nreq>>

\* async_tool: gree.lock().await returns.
FrontLock(i) ==
    /\ front.kind = "async"
    /\ front.h[i].at = "waiting"
    /\ IsOk(FrontBag(front.h[i].req).r)
    /\ CanLock(front.lock)
    /\ front' = [front EXCEPT !.owner = i, !.lock = i, !.h[i].at = "in"]
    /\ UNCHANGED <<cfg, now, scan_ts, devices, vars, pc, call, nbind, queue, wire, rx, nreq>>

\* sync_tool: the loop takes the request and make_response calls the
\* orchestrator.
FrontTake(i) ==
    /\ front.kind = "sync"
    /\ front.h[i].at = "waiting"
    /\ parse_request_uri(front.kind, front.h[i].req) # None
    /\ IsOk(FrontBag(front.h[i].req).r)
    /\ LoopTurn(front.owner)
    /\ front' = [front EXCEPT !.owner = i, !.h[i].at = "in"]
    /\ UNCHANGED <<cfg, now, scan_ts, devices, vars, pc, call, nbind, queue, wire, rx, nreq>>

\* The handler whose request the orchestrator works on calls its operation;
\* /dev/<target> is a request of async_tool only.
FrontCall(i) ==
    /\ front.owner = i
    /\ LET req == front.h[i].req
       IN  \/ front.h[i].at = "in"  /\ req.kind = "scan" /\ GreeScan
           \/ front.h[i].at = "in2" /\ WithState
           \/ front.h[i].at = "in"  /\ req.kind = "dev" /\ WithState
           \/ front.h[i].at = "in"  /\ req.kind = "devinfo" /\ front.kind = "async"
                /\ WithDevice(req.target)
           \/ front.h[i].at = "in"  /\ req.kind = "get"
                /\ ApplyRetryingBegin("NetRead", req.target, FrontBag(req).bag[1])
           \/ front.h[i].at = "in"  /\ req.kind = "set"
                /\ ApplyRetryingBegin("NetWrite", req.target, FrontBag(req).bag[1])

\* The operation goes on, inside the orchestrator (time passes meanwhile,
\* by Tick).
FrontStep ==
    /\ front.owner # "-"
    /\ WithDeviceRetry \/ ApplyFirst \/ ApplyRescan \/ ApplySecond

\* The operation has returned: /scan goes on to with_state if its scan
\* succeeded; otherwise the handler answers and the orchestrator is free.
FrontFinish(i) ==
    /\ front.owner = i
    /\ pc = "done"
    /\ LET hd  == front.h[i]
           err == FrontErr(front.kind, call.result)
       IN  IF hd.at = "in" /\ hd.req.kind = "scan" /\ IsOk(call.result)
           THEN front' = [front EXCEPT !.h[i].at = "in2"]
           ELSE front' = [front EXCEPT !.owner = "-", !.lock = "-",
                                       !.h[i] = Handler("idle", NoReq, err, StatusOf(err))]
    /\ pc' = "idle"
    /\ call' = NoCall
    /\ vars' = EmptyMap
    /\ UNCHANGED <<cfg, now, scan_ts, devices, nbind, queue, wire, rx, nreq>>

\* The operation panicked.  In async_tool the handler's task ends without a
\* response (status 0) and its MutexGuard is dropped as it unwinds, so the
\* orchestrator is free again; in sync_tool the panic is in the thread of the
\* request loop, and nothing runs after it.
FrontAbort(i) ==
    /\ front.owner = i
    /\ pc = "aborted"
    /\ front.kind = "async"
    /\ front' = [front EXCEPT !.owner = "-", !.lock = "-",
                               !.h[i] = Handler("idle", NoReq, "Panic", 0)]
    /\ pc' = "idle"
    /\ call' = NoCall
    /\ vars' = EmptyMap
    /\ UNCHANGED <<cfg, now, scan_ts, devices, nbind, queue, wire, rx, nreq>>

\* The requests of the run with two handlers: h1 serves every request but
\* set, h2 serves /scan.
SharedRequests == {r \in FrontRequests : r.kind # "set"}
PollRequests == {r \in FrontRequests : r.kind = "scan"}

FrontNext ==
    \/ Tick
    \/ \E req \in SharedRequests : FrontRequest("h1", req)
    \/ \E req \in PollRequests : FrontRequest("h2", req)
    \/ \E i \in Handlers : FrontInvalid(i)
    \/ \E i \in Handlers : FrontReject(i)
    \/ \E i \in Handlers : FrontLock(i)
    \/ \E i \in Handlers : FrontTake(i)
    \/ \E i \in Handlers : FrontCall(i)
    \/ FrontStep
    \/ \E i \in Handlers : FrontFinish(i)
    \/ \E i \in Handlers : FrontAbort(i)

FrontSpec == FrontInit /\ [][FrontNext]_allvars

\* One handler serving every request, one after the other.
ServeNext ==
    \/ Tick
    \/ \E req \in FrontRequests : FrontRequest("h1", req)
    \/ FrontInvalid("h1")
    \/ FrontReject("h1")
    \/ FrontLock("h1")
    \/ FrontTake("h1")
    \/ FrontCall("h1")
    \/ FrontStep
    \/ FrontFinish("h1")
    \/ FrontAbort("h1")

ServeSpec == FrontInit /\ [][ServeNext]_allvars

\* =============================================================== claims
\* A step that takes a scan decision: the first step of a public call, or the
\* forced rescan of a retrying call.
ScanStep ==
    \/ pc = "idle" /\ pc' # "idle"
    \/ pc \in {"scan2", "wd2"} /\ pc' # pc

\* A step that makes one apply attempt.
ApplyStep == pc \in {"apply1", "apply2"} /\ pc' # pc

\* The latest scan decision of call record c.
LastDec(c) == c.scans[Len(c.scans)]

\* The datagrams of kind t among those in sent.
Sent(sent, t) == {i \in 1..Len(sent) : sent[i].t = t}

\* Age of the last successful scan (only where scan_ts # None).
Age == now - scan_ts[1]

\* ------------------------------------------------------------------ C1
\* C1: scan(forced) performs a network scan iff no scan has succeeded yet, or
\* the last successful scan is at least max_scan_age old, or it is at least
\* min_scan_age old and forced is true; a scan that succeeds resets the
\* timestamp to the instant it completed.  Otherwise the decision sends
\* nothing, changes neither the registry nor the timestamp, and returns Ok.
C1_ScanDecision ==
    [][ ScanStep =>
          LET d   == LastDec(call')
              due == \/ scan_ts = None
                     \/ Age >= cfg.max_scan_age
                     \/ Age >= cfg.min_scan_age /\ d.forced
          IN  /\ d.ran <=> due
              /\ Sent(call'.sent, "scan") # {} => due
              /\ d.ran /\ IsOk(d.r) => /\ Sent(call'.sent, "scan") # {}
                                       /\ scan_ts' = Some(now')
              /\ ~d.ran => /\ call'.sent = <<>>
                           /\ devices' = devices
                           /\ scan_ts' = scan_ts
                           /\ IsOk(d.r)
      ]_allvars

\* A retrying call whose unforced decision was skipped and whose forced one ran.
C1_Witness ==
    /\ Len(call.scans) = 2
    /\ ~call.scans[1].forced /\ ~call.scans[1].ran
    /\ call.scans[2].forced /\ call.scans[2].ran /\ IsOk(call.scans[2].r)
    /\ scan_ts = Some(now)

\* ------------------------------------------------------------------ C2
\* C2: while the last successful scan is younger than min_scan_age no
\* operation performs a network scan, whatever forced is and whatever
\* min_scan_age and max_scan_age are configured to.
C2_NoScanBelowMinAge ==
    [][ ScanStep /\ scan_ts # None /\ Age < cfg.min_scan_age
          => ~LastDec(call').ran /\ Sent(call'.sent, "scan") = {}
      ]_allvars

\* ------------------------------------------------------------------ C3
\* C3 as stated: every call of the public scan() on which the network does
\* not fail sends a scan broadcast and replaces the registry with the replies,
\* however recent the previous scan.
C3_ScanUnconditional ==
    [][ pc = "idle" /\ call'.api = "scan" /\ IsOk(call'.result)
          => /\ Sent(call'.sent, "scan") # {}
             /\ DOMAIN devices' = {call'.replies[i].pack.mac : i \in 1..Len(call'.replies)}
      ]_allvars

\* C3: the public scan() asks for a forced scan.  It sends a scan broadcast
\* and (if the scan succeeds) replaces the registry with the replies iff no
\* scan has succeeded yet or the last successful scan is at least
\* min_scan_age or at least max_scan_age old; otherwise it sends nothing,
\* leaves registry and timestamp alone, and returns Ok.
C3_ScanForcedNotUnconditional ==
    [][ pc = "idle" /\ call'.api = "scan" =>
          LET d   == LastDec(call')
              due == \/ scan_ts = None
                     \/ Age >= cfg.min_scan_age
                     \/ Age >= cfg.max_scan_age
          IN  /\ d.forced
              /\ due <=> d.ran
              /\ due /\ IsOk(call'.result) =>
                    /\ Sent(call'.sent, "scan") # {}
                    /\ DOMAIN devices' =
                         {call'.replies[i].pack.mac : i \in 1..Len(call'.replies)}
                    /\ \A m \in DOMAIN devices' : devices'[m].key = None
              /\ ~due => /\ call'.sent = <<>>
                         /\ devices' = devices
                         /\ scan_ts' = scan_ts
                         /\ call'.result = Ok
      ]_allvars

\* The public scan() returned Ok without scanning: the last successful scan
\* was too recent, and a bound device kept its key.
C3_Witness ==
    /\ pc = "done" /\ call.api = "scan"
    /\ ~LastDec(call).ran /\ call.result = Ok /\ call.sent = <<>>
    /\ \E m \in DOMAIN devices : devices[m].key # None

\* ------------------------------------------------------------------ C4
\* How an exchange with a device can fail: the request is not sent, no answer
\* comes in time, or handle_response fails on the answer (with an error or with
\* the panic).
ExchangeErrors == {Err(e) : e \in AllExchangeErrors}

\* The errors of an exchange that sent nothing.
UnsentErrors == {Err(e) : e \in Unsent}

\* C4: in bind / net_read / net_write, a first apply that fails with NotFound
\* is followed by a forced rescan and (if that returns Ok) a second apply.
\* If the device is then in the registry the operation succeeds unless one of
\* its exchanges fails; if it is still absent the operation returns NotFound
\* naming the target as the caller gave it, and sends nothing.
C4_RetryAfterNotFound ==
    [][ /\ pc = "apply1" /\ pc' # pc /\ Resolve(call.target) \notin DOMAIN devices
           => call'.attempts[1] = NotFound(call.target) /\ pc' = "scan2"
        /\ pc = "scan2" /\ pc' # pc /\ call.attempts[1][1] = "NotFound"
           => /\ LastDec(call').forced
              /\ IsOk(LastDec(call').r) => pc' = "apply2"
        /\ pc = "apply2" /\ pc' # pc /\ call.attempts[1][1] = "NotFound"
           => LET mac == Resolve(call.target)
              IN  /\ pc' = IF call'.result = Panic THEN "aborted" ELSE "done"
                  /\ mac \in DOMAIN devices =>
                       /\ IsOk(call'.result) \/ call'.result \in ExchangeErrors
                       /\ (\A i \in 1..Len(call'.sent) : call'.sent[i].ok)
                            /\ call'.result \notin UnsentErrors => IsOk(call'.result)
                  /\ mac \notin DOMAIN devices =>
                       /\ call'.result = NotFound(call.target)
                       /\ call'.sent = <<>>
      ]_allvars

\* The device came back with the forced rescan and the write went through a
\* Bind and a Command.
C4_Witness ==
    /\ pc = "done" /\ call.api = "apply_retrying" /\ Len(call.attempts) = 2
    /\ call.attempts[1][1] = "NotFound"
    /\ call.scans[2].ran
    /\ call.op = "NetWrite" /\ IsOk(call.result)
    /\ Sent(call.sent, "bind") # {} /\ Sent(call.sent, "cmd") # {}

\* ------------------------------------------------------------------ C5
\* C5 as stated: whenever the first apply fails, a forced scan decision is
\* taken, apply is attempted exactly once more, and the call returns the
\* result of that second attempt.
C5_SecondAttemptAlways ==
    pc = "done" /\ call.api = "apply_retrying"
      /\ Len(call.attempts) >= 1 /\ ~IsOk(call.attempts[1])
    => /\ Len(call.scans) = 2 /\ call.scans[2].forced
       /\ Len(call.attempts) = 2
       /\ call.result = call.attempts[2]

\* C5: whenever the first apply fails, with any error, a forced scan decision
\* is taken.  If that scan returns an error the call returns it and apply is
\* not attempted again; otherwise apply is attempted exactly once more and the
\* call returns the second attempt's result unchanged.
C5_SecondAttemptUnlessScanFails ==
    pc = "done" /\ call.api = "apply_retrying"
      /\ Len(call.attempts) >= 1 /\ ~IsOk(call.attempts[1])
    => /\ Len(call.scans) = 2 /\ call.scans[2].forced
       /\ IF IsOk(call.scans[2].r)
          THEN Len(call.attempts) = 2 /\ call.result = call.attempts[2]
          ELSE Len(call.attempts) = 1 /\ call.result = call.scans[2].r

\* The forced rescan failed after a first attempt that failed otherwise, and
\* its error is what the call returns.
C5_Witness ==
    /\ pc = "done" /\ call.api = "apply_retrying"
    /\ call.attempts = << Err("RecvTimeout") >>
    /\ Len(call.scans) = 2 /\ call.scans[2].r = Err("SerDe")
    /\ call.result = Err("SerDe")

\* ------------------------------------------------------------------ C6
\* C6: one call makes at most two apply attempts and takes at most two scan
\* decisions; once the second attempt is made the call is over, with its
\* result returned (or unwound by a panic of that attempt): there is no third
\* retry.
C6_AtMostTwoAttempts ==
    /\ Len(call.attempts) <= 2
    /\ Len(call.scans) <= 2
    /\ Len(call.attempts) = 2 => pc \in {"done", "aborted"}
    /\ Len(call.attempts) = 2 /\ call.attempts[2] # Panic => pc = "done"
    /\ pc = "aborted" => call.result = Panic
    /\ pc = "done" => call.result \notin {Pending, Panic}

\* A call that failed twice and returned the second failure.
C6_Witness ==
    /\ pc = "done" /\ call.api = "apply_retrying"
    /\ Len(call.attempts) = 2 /\ Len(call.scans) = 2
    /\ ~IsOk(call.attempts[1]) /\ ~IsOk(call.attempts[2])
    /\ call.result = call.attempts[2]

\* ------------------------------------------------------------------ C7
\* net_read / net_write was called against a target missing from the registry
\* and has its result.
MissingTargetDone ==
    /\ pc = "done" /\ call.api = "apply_retrying"
    /\ call.op \in {"NetRead", "NetWrite"}
    /\ call.missing

\* Some scan decision of the call ran a network scan.
ScanRan(c) == \E i \in 1..Len(c.scans) : c.scans[i].ran

\* C7 as stated: if net_read / net_write is called against a target missing
\* from the registry, a network scan is invoked during that call.
C7_MissingTargetScans == MissingTargetDone => ScanRan(call)

\* C7: if net_read / net_write is called against a target missing from the
\* registry, a network scan is invoked during that call, unless the last
\* successful scan is younger than min_scan_age and than max_scan_age when the
\* forced decision is taken: then both decisions are skipped and the call
\* returns NotFound naming the target.
C7_MissingTargetScansUnlessRecent ==
    MissingTargetDone =>
      \/ ScanRan(call)
      \/ /\ scan_ts # None /\ Age < cfg.min_scan_age /\ Age < cfg.max_scan_age
         /\ Len(call.scans) = 2 /\ call.scans[2].forced
         /\ call.result = NotFound(call.target)

\* A net_read against a missing target that returned NotFound with no scan.
C7_Witness ==
    /\ MissingTargetDone /\ call.op = "NetRead"
    /\ ~ScanRan(call)
    /\ call.result = NotFound(call.target)

\* ------------------------------------------------------------------ C8
\* C8: apply on a device whose key is absent first makes one Bind exchange
\* under the generic key; if it succeeds the key of the response is stored in
\* the device's record before the operation is dispatched (a Status or
\* Command of that attempt is encrypted with it); if it fails the device
\* stays unbound and no Status or Command is sent in that attempt.
C8_BindBeforeDispatch ==
    [][ LET mac == Resolve(call.target)
            S   == call'.sent
            r   == call'.attempts[Len(call'.attempts)]
        IN  ApplyStep /\ mac \in DOMAIN devices /\ devices[mac].key = None =>
              \/ S = <<>> /\ r \in UnsentErrors /\ devices' = devices
              \/ /\ S # <<>>
                 /\ S[1].t = "bind" /\ S[1].key = GENERIC_KEY
                 /\ S[1].mac = mac /\ S[1].ip = devices[mac].ip
                 /\ Sent(S, "bind") = {1}
                 /\ IF S[1].ok
                    THEN /\ devices' = [devices EXCEPT ![mac].key = Some(S[1].rkey)]
                         /\ \A i \in 2..Len(S) : /\ S[i].t \in {"status", "cmd"}
                                                 /\ S[i].mac = mac
                                                 /\ S[i].key = S[1].rkey
                    ELSE Len(S) = 1 /\ devices' = devices /\ r \in ExchangeErrors
      ]_allvars

\* One attempt that bound the device and then read it under the new key.
C8_Witness ==
    /\ pc = "done" /\ call.op = "NetRead" /\ Len(call.sent) = 2
    /\ call.sent[1].t = "bind" /\ call.sent[1].ok
    /\ call.sent[2].t = "status" /\ call.sent[2].key = call.sent[1].rkey
    /\ devices[call.sent[1].mac].key = Some(call.sent[1].rkey)

\* ------------------------------------------------------------------ C9
\* C9 as stated, its conclusion: consecutive operations on a device with no
\* scan executed in between perform at most one Bind exchange in total.
C9_AtMostOneBindExchange == call.binds <= 1

\* C9: ensure_bound is idempotent: on a device that has a key it sends no
\* datagram and leaves the key and the record as they are, so consecutive
\* operations on a device with no scan executed in between perform at most
\* one answered Bind exchange in total (a Bind that fails leaves the key
\* absent and is repeated by the next attempt).
C9_BindIdempotent ==
    [][ /\ LET mac == Resolve(call.target)
           IN  ApplyStep /\ mac \in DOMAIN devices /\ devices[mac].key # None
                 => Sent(call'.sent, "bind") = {} /\ devices' = devices
        /\ \A m \in MACs : nbind'[m] <= 1
      ]_allvars

\* A read of a device bound by an earlier attempt since the last scan: only
\* the Status datagram is sent.
C9_Witness ==
    /\ pc = "done" /\ call.op = "NetRead" /\ call.attempts = << Ok >>
    /\ Len(call.sent) = 1 /\ call.sent[1].t = "status"
    /\ nbind[call.sent[1].mac] = 1
    /\ ~ScanRan(call)

\* ----------------------------------------------------------------- C10
\* The last reply of rs sent by MAC m.
LastOf(rs, m) ==
    CHOOSE i \in 1..Len(rs) :
      rs[i].pack.mac = m /\ \A j \in (i + 1)..Len(rs) : rs[j].pack.mac # m

\* C10: every scan that is executed and succeeds replaces the whole registry:
\* the new registry has exactly one entry per distinct MAC of the replies,
\* holding the address and the metadata of this scan (of the last reply of
\* that MAC), and no entry has a session key.
C10_ScanReplacesRegistry ==
    [][ LET d  == LastDec(call')
            rs == call'.replies
        IN  ScanStep /\ d.ran /\ IsOk(d.r) =>
              /\ DOMAIN devices' = {rs[i].pack.mac : i \in 1..Len(rs)}
              /\ \A m \in DOMAIN devices' :
                   devices'[m] = [ ip |-> rs[LastOf(rs, m)].ip,
                                   scan_result |-> rs[LastOf(rs, m)].pack,
                                   key |-> None ]
      ]_allvars

\* A forced rescan whose two replies came from one MAC at two addresses: the
\* registry holds that device alone, at the later address, unbound.
C10_Witness ==
    /\ Len(call.scans) = 2 /\ call.scans[2].ran /\ Len(call.replies) = 2
    /\ call.replies[1].pack.mac = call.replies[2].pack.mac
    /\ call.replies[1].ip # call.replies[2].ip
    /\ DOMAIN devices = {call.replies[2].pack.mac}
    /\ devices[call.replies[2].pack.mac].ip = call.replies[2].ip
    /\ devices[call.replies[2].pack.mac].key = None

\* ----------------------------------------------------------------- C11
\* C11: a device's key is None until a Bind exchange for that device is
\* answered, and no step other than a scan that is executed and succeeds
\* removes a device or changes its address, its metadata or a key it has:
\* operations that fail, skipped scan decisions, with_device and with_state
\* included.
C11_KeyOnlyByBindAndScan ==
    [][ IF ScanStep /\ LastDec(call').ran /\ IsOk(LastDec(call').r)
        THEN \A m \in DOMAIN devices' : devices'[m].key = None
        ELSE \A m \in DOMAIN devices :
               /\ m \in DOMAIN devices'
               /\ devices'[m].ip = devices[m].ip
               /\ devices'[m].scan_result = devices[m].scan_result
               /\ devices[m].key # None => devices'[m].key = devices[m].key
               /\ devices[m].key = None /\ devices'[m].key # None =>
                    /\ ApplyStep
                    /\ \E i \in Sent(call'.sent, "bind") :
                         /\ call'.sent[i].mac = m /\ call'.sent[i].ok
                         /\ devices'[m].key = Some(call'.sent[i].rkey)
      ]_allvars

\* A read of a bound device failed twice, the rescan in between was skipped,
\* and the device still has its key.
C11_Witness ==
    /\ pc = "done" /\ call.op = "NetRead"
    /\ call.attempts = << Err("RecvTimeout"), Err("RecvTimeout") >>
    /\ ~call.scans[2].ran
    /\ Sent(call.sent, "bind") = {} /\ Len(call.sent) = 1
    /\ devices[call.sent[1].mac].key = Some(call.sent[1].key)

\* ----------------------------------------------------------------- C12
\* The slots of a bag that are pending.
ReadPending(bag) == {n \in DOMAIN bag : bag[n].net_read_pending}
WritePending(bag) == {n \in DOMAIN bag : bag[n].net_write_pending}

\* The (name, value) pairs of a response: its two lists paired by position.
PairCount(out) == Min(Len(out.names), Len(out.vals))
Echoed(out) == {out.names[i] : i \in 1..PairCount(out)}
LastPair(out, n) ==
    CHOOSE i \in 1..PairCount(out) :
      out.names[i] = n /\ \A j \in (i + 1)..PairCount(out) : out.names[j] # n

\* The last operation was a net_read with a read-pending slot.
ReadDone == call.api = "net_read" /\ ReadPending(call.bag0) # {}

\* One Status exchange for exactly the read-pending names (none goes out if
\* the request cannot be sent or the receiver thread has ended); a failed read
\* leaves the bag as it was.
OneStatus ==
    /\ Len(call.sent) <= 1
    /\ call.result[1] \notin Unsent => Len(call.sent) = 1
    /\ \A i \in 1..Len(call.sent) :
         /\ call.sent[i].t = "status"
         /\ call.sent[i].cols = ReadPending(call.bag0)
         /\ call.sent[i].key = devices[BagMac].key[1]
    /\ ~IsOk(call.result) => vars = call.bag0

\* C12 as stated: net_read with a read-pending slot issues exactly one Status
\* exchange for exactly the read-pending names; after success every (name,
\* value) pair of the response whose name is a slot of the bag has that value
\* and read_pending = false, and other response names are ignored.
C12_EveryPairSet ==
    ReadDone =>
      /\ OneStatus
      /\ IsOk(call.result) =>
           /\ DOMAIN vars = DOMAIN call.bag0
           /\ \A i \in 1..PairCount(call.out) :
                call.out.names[i] \in DOMAIN call.bag0 =>
                  /\ vars[call.out.names[i]].value = call.out.vals[i]
                  /\ ~vars[call.out.names[i]].net_read_pending

\* C12: as above, but when a name occurs in more than one pair of the
\* response the slot takes the value of the last of them; slots no pair names
\* are left as they were.
C12_LastPairSet ==
    ReadDone =>
      /\ OneStatus
      /\ IsOk(call.result) =>
           /\ DOMAIN vars = DOMAIN call.bag0
           /\ \A n \in DOMAIN call.bag0 :
                IF n \in Echoed(call.out)
                THEN vars[n] = [ call.bag0[n] EXCEPT
                                   !.value = call.out.vals[LastPair(call.out, n)],
                                   !.net_read_pending = FALSE ]
                ELSE vars[n] = call.bag0[n]

\* A read answered with two values for Pow: the bag holds the second.
C12_Witness ==
    /\ ReadDone /\ IsOk(call.result)
    /\ call.out.names = <<"Pow", "Pow">> /\ call.out.vals = <<"1", "0">>
    /\ "Pow" \in ReadPending(call.bag0)
    /\ vars["Pow"].value = "0" /\ ~vars["Pow"].net_read_pending

\* ----------------------------------------------------------------- C13
\* The last operation was a net_write with a write-pending slot.
WriteDone == call.api = "net_write" /\ WritePending(call.bag0) # {}

\* One Command exchange carrying exactly the write-pending (name, value)
\* pairs; a failed write leaves the bag as it was.
OneCommand ==
    /\ Len(call.sent) <= 1
    /\ call.result[1] \notin Unsent => Len(call.sent) = 1
    /\ \A i \in 1..Len(call.sent) :
         /\ call.sent[i].t = "cmd"
         /\ call.sent[i].p = [n \in WritePending(call.bag0) |-> call.bag0[n].value]
         /\ call.sent[i].key = devices[BagMac].key[1]
    /\ ~IsOk(call.result) => vars = call.bag0

\* C13 as stated: net_write with a write-pending slot issues exactly one
\* Command exchange carrying exactly the write-pending pairs; after success
\* every name of the echo list that is a slot of the bag has write_pending =
\* false and the value the response gives for it, and slots not echoed keep
\* write_pending and their local value.
C13_EveryEchoSet ==
    WriteDone =>
      /\ OneCommand
      /\ IsOk(call.result) =>
           /\ \A i \in 1..PairCount(call.out) :
                call.out.names[i] \in DOMAIN call.bag0 =>
                  /\ ~vars[call.out.names[i]].net_write_pending
                  /\ vars[call.out.names[i]].value = call.out.vals[i]
           /\ \A n \in DOMAIN call.bag0 \ Echoed(call.out) : vars[n] = call.bag0[n]

\* C13: as above, the echo list being the names of opt that have a value at
\* the same position of p; when a name is echoed more than once the slot
\* takes the last value given for it; an echoed slot has both flags false.
C13_LastEchoSet ==
    WriteDone =>
      /\ OneCommand
      /\ IsOk(call.result) =>
           /\ DOMAIN vars = DOMAIN call.bag0
           /\ \A n \in DOMAIN call.bag0 :
                IF n \in Echoed(call.out)
                THEN vars[n] = [ value |-> call.out.vals[LastPair(call.out, n)],
                                 net_read_pending |-> FALSE,
                                 net_write_pending |-> FALSE ]
                ELSE vars[n] = call.bag0[n]

\* A write of Pow = 1 and Mod = 2 that the device echoed for Pow only, with
\* the value 0: Pow is settled at 0, Mod is still to be written.
C13_Witness ==
    /\ WriteDone /\ IsOk(call.result)
    /\ WritePending(call.bag0) = {"Pow", "Mod"}
    /\ call.bag0["Pow"].value = "1"
    /\ call.out.names = <<"Pow">> /\ call.out.vals = <<"0">>
    /\ vars["Pow"].value = "0" /\ ~vars["Pow"].net_write_pending
    /\ vars["Mod"] = call.bag0["Mod"] /\ vars["Mod"].net_write_pending

\* ----------------------------------------------------------------- C14
\* C14: NetRead on a bag with no read-pending slot sends no Status request,
\* leaves the bag unchanged and succeeds; NetWrite on a bag with no
\* write-pending slot sends no Command request, leaves the bag unchanged and
\* succeeds.
C14_NothingPendingNoop ==
    /\ call.api = "net_read" /\ ReadPending(call.bag0) = {}
         => call.sent = <<>> /\ vars = call.bag0 /\ call.result = Ok
    /\ call.api = "net_write" /\ WritePending(call.bag0) = {}
         => call.sent = <<>> /\ vars = call.bag0 /\ call.result = Ok

\* A read of a bag whose only slot was built for writing.
C14_Witness ==
    /\ call.api = "net_read" /\ call.result = Ok /\ call.sent = <<>>
    /\ DOMAIN call.bag0 = {"Pow"}
    /\ call.bag0["Pow"].net_write_pending /\ ~call.bag0["Pow"].net_read_pending
    /\ vars = call.bag0

\* ----------------------------------------------------------------- C15
\* C15: net_read and net_write never change which names a bag holds, whether
\* they succeed or fail and however often they are applied to the bag.
C15_BagMembership ==
    call.api \in {"net_read", "net_write"} => DOMAIN vars = DOMAIN call.bag0

\* A read of a bag without Mod, answered with a value for Mod.
C15_Witness ==
    /\ call.api = "net_read" /\ IsOk(call.result)
    /\ DOMAIN call.bag0 = {"Pow"}
    /\ call.out.names = <<"Mod", "Pow">> /\ Len(call.out.vals) = 2
    /\ DOMAIN vars = {"Pow"}

\* ----------------------------------------------------------------- C16
\* The last operation built a bag from names / from name=value pairs: whole,
\* from the empty bag, or by adding one name (pair) to the bag call.bag0 that
\* the caller held.
FromNames == call.api \in {"net_var_bag_from_names", "add_n_to"}
FromNvs == call.api \in {"net_var_bag_from_nvs", "add_nv_to"}
\* The names of the list the bag was built from.
InputNames ==
    IF FromNames THEN call.input ELSE [i \in 1..Len(call.input) |-> call.input[i][1]]

\* C16: a bag built from names has one slot per distinct name, each with
\* read_pending = true and write_pending = false (and no value); a bag built
\* from name=value pairs has one slot per distinct name, each with
\* write_pending = true and read_pending = false (and a value); no
\* constructor makes a slot with both flags false.  A name (pair) added to a
\* bag the caller holds gives its slot in the same way, whatever the slot was
\* before, and leaves the other slots of the bag as they were.
C16_BuiltSlots ==
    (FromNames \/ FromNvs) /\ IsOk(call.result) =>
      LET names == {InputNames[i] : i \in 1..Len(InputNames)}
      IN  /\ pc = "used"
          /\ DOMAIN vars = DOMAIN call.bag0 \cup names
          /\ call.api \in {"net_var_bag_from_names", "net_var_bag_from_nvs"}
                => call.bag0 = EmptyMap
          /\ \A n \in names :
               /\ vars[n].net_read_pending \/ vars[n].net_write_pending
               /\ FromNames => /\ vars[n].net_read_pending /\ ~vars[n].net_write_pending
                               /\ vars[n].value = "null"
               /\ FromNvs => /\ vars[n].net_write_pending /\ ~vars[n].net_read_pending
                             /\ vars[n].value # "null"
          /\ \A n \in DOMAIN call.bag0 \ names : vars[n] = call.bag0[n]

\* A bag built from two pairs for one name: one slot, holding the later value.
C16_Witness ==
    /\ call.api = "net_var_bag_from_nvs" /\ IsOk(call.result) /\ Len(call.input) = 2
    /\ call.input[1] = <<"Mod", <<"1">>>> /\ call.input[2] = <<"Mod", <<"2">>>>
    /\ DOMAIN vars = {"Mod"} /\ vars["Mod"].value = "2"
    /\ vars["Mod"].net_write_pending

\* ----------------------------------------------------------------- C17
\* The last operation built a bag from one pair naming a boolean-domain
\* variable, or added such a pair to a bag.
BoolPair ==
    /\ FromNvs /\ Len(call.input) = 1
    /\ call.input[1][1] \in {"Pow", "TemUn", "Air", "Blo", "Health", "SwhSlp", "Lig",
                             "Quiet", "Tur", "SvSt", "StHt"}

\* C17 as stated: for every boolean-domain variable and every literal other
\* than 0 or 1 the build fails with InvalidValue carrying the name and the
\* literal, and no bag is returned.
C17_InvalidValueUnlessZeroOne ==
    BoolPair /\ call.input[1][2] \notin {<<"0">>, <<"1">>} =>
      /\ call.result = <<"InvalidValue", call.input[1][1], Join(call.input[1][2])>>
      /\ pc = "failed" /\ vars = EmptyMap

\* C17: for every boolean-domain variable the build fails, and returns no
\* bag, for every literal that does not denote 0 or 1: with InvalidValue
\* carrying the name and the literal when the literal is a u8 number above 1
\* (2, 255), with ParseInt when it is no u8 number (empty, x, -1, 256).  The
\* literals 01 and +1 denote 1 and are accepted like 1.
C17_InvalidValueOrParseInt ==
    BoolPair =>
      LET name == call.input[1][1]
          lit  == call.input[1][2]
      IN  /\ lit \in {<<"0">>} =>
                /\ IsOk(call.result)
                /\ vars = Put(call.bag0, name, [value |-> "0", net_read_pending |-> FALSE,
                                                net_write_pending |-> TRUE])
          /\ lit \in {<<"1">>, <<"0", "1">>, <<"+", "1">>} =>
                /\ IsOk(call.result)
                /\ vars = Put(call.bag0, name, [value |-> "1", net_read_pending |-> FALSE,
                                                net_write_pending |-> TRUE])
          /\ lit \in {<<"2">>, <<"2", "5", "5">>} =>
                call.result = <<"InvalidValue", name, Join(lit)>>
          /\ lit \in {<<>>, <<"x">>, <<"-", "1">>, <<"2", "5", "6">>} =>
                call.result = Err("ParseInt")
          /\ ~IsOk(call.result) => pc = "failed" /\ vars = EmptyMap
          /\ lit \in {<<"0">>, <<"1">>, <<"0", "1">>, <<"+", "1">>, <<"2">>, <<"2", "5", "5">>,
                      <<>>, <<"x">>, <<"-", "1">>, <<"2", "5", "6">>}

\* Pow = x fails with ParseInt, not InvalidValue.
C17_Witness ==
    /\ BoolPair /\ call.input[1] = <<"Pow", <<"x">>>>
    /\ call.result = Err("ParseInt") /\ pc = "failed" /\ vars = EmptyMap

\* ----------------------------------------------------------------- C18
\* The first position of the input whose name is not in the catalog.
FirstUnknown ==
    CHOOSE j \in 1..Len(InputNames) :
      InputNames[j] \notin ALL /\ \A i \in 1..(j - 1) : InputNames[i] \in ALL
HasUnknown == \E j \in 1..Len(InputNames) : InputNames[j] \notin ALL

\* C18 as stated: building a bag fails with InvalidVar as soon as any name is
\* not a catalog name, returning no bag, and building from names succeeds
\* for every list of catalog names.
C18_InvalidVarOnUnknownName ==
    FromNames \/ FromNvs =>
      /\ HasUnknown => call.result[1] = "InvalidVar" /\ pc = "failed" /\ vars = EmptyMap
      /\ FromNames /\ ~HasUnknown => IsOk(call.result)

\* C18: building a bag fails, returning no bag, whenever a name is not a
\* catalog name.  The error is InvalidVar carrying the first such name,
\* except that a build from pairs returns the value error (InvalidValue or
\* ParseInt) of an earlier pair if there is one.  Building from names
\* succeeds for every list of catalog names.
C18_FirstErrorWins ==
    FromNames \/ FromNvs =>
      /\ HasUnknown =>
           /\ pc = "failed" /\ vars = EmptyMap
           /\ \/ call.result = <<"InvalidVar", InputNames[FirstUnknown]>>
              \/ /\ FromNvs /\ call.result = Err("ParseInt") /\ FirstUnknown > 1
              \/ /\ FromNvs
                 /\ \E i \in 1..(FirstUnknown - 1) :
                      call.result = <<"InvalidValue", InputNames[i], Join(call.input[i][2])>>
      /\ call.result[1] = "InvalidVar" => HasUnknown
      /\ FromNames /\ ~HasUnknown => IsOk(call.result) /\ pc = "used"

\* Pow = 2 followed by an unknown name: the build fails with InvalidValue.
C18_Witness ==
    /\ FromNvs /\ call.input = << <<"Pow", <<"2">>>>, <<"Zz", <<"1">>>> >>
    /\ call.result = <<"InvalidValue", "Pow", "2">>
    /\ pc = "failed" /\ vars = EmptyMap

\* ----------------------------------------------------------------- C19
\* The registry key the alias table gives for target t: aliases[t] if t is an
\* alias, t itself otherwise (one lookup).
KeyFor(t) == IF t \in DOMAIN cfg.aliases THEN cfg.aliases[t] ELSE t

\* C19: an operation on a target acts on the registry entry keyed by
\* aliases[target] when the target is an alias and by target otherwise, the
\* rewrite being applied once: every datagram of an apply attempt goes to that
\* entry's MAC and address, the attempt is NotFound exactly when the registry
\* has no such key, with_device hands out that entry, and the step changes
\* neither the alias table, nor the registry's keys, nor any other entry, nor
\* the entry's address and scan metadata.
C19_TargetResolution ==
    [][ /\ cfg' = cfg
        /\ ApplyStep =>
             LET mac == KeyFor(call.target)
             IN  /\ DOMAIN devices' = DOMAIN devices
                 /\ \A k \in DOMAIN devices \ {mac} : devices'[k] = devices[k]
                 /\ (mac \notin DOMAIN devices)
                      <=> (call'.attempts[Len(call'.attempts)] = <<"NotFound", call.target>>)
                 /\ mac \in DOMAIN devices =>
                      /\ devices'[mac].ip = devices[mac].ip
                      /\ devices'[mac].scan_result = devices[mac].scan_result
                 /\ \A i \in 1..Len(call'.sent) :
                      /\ call'.sent[i].mac = mac
                      /\ mac \in DOMAIN devices
                      /\ call'.sent[i].ip = devices[mac].ip
        /\ call'.api = "with_device_retrying" /\ pc' = "done" /\ pc # "done" =>
             LET mac == KeyFor(call'.target)
             IN  /\ IsOk(call'.result) <=> (call'.ret # None)
                 /\ IsOk(call'.result) =>
                      mac \in DOMAIN devices' /\ call'.ret = <<devices'[mac]>>
                 /\ call'.result = <<"NotFound", call'.target>> => mac \notin DOMAIN devices'
      ]_allvars

\* An operation on the alias a1 (for m2, itself an alias name for m1) has
\* succeeded on the device m2 while m1 is in the registry too.
C19_Witness ==
    /\ pc = "done" /\ call.api = "apply_retrying" /\ call.target = "a1"
    /\ IsOk(call.result)
    /\ Len(call.sent) >= 1 /\ call.sent[1].mac = "m2"
    /\ {"m1", "m2"} \subseteq DOMAIN devices

\* ----------------------------------------------------------------- C20
\* Every registry key is the mac of the scan metadata stored under it.
KeyIsReportedMac == \A k \in DOMAIN devices : devices[k].scan_result.mac = k

\* C20: in every reachable state every registry key is a true device MAC
\* address: it equals the mac of the scan metadata stored under it and is
\* one of the devices' MACs, so no alias name, not the empty string, and no
\* value that no device reported.
C20_KeysAreTrueMacs ==
    /\ KeyIsReportedMac
    /\ \A k \in DOMAIN devices : k \in MACs

\* ----------------------------------------------------------------- C30
\* C30: a public operation surfaces MacNotBound only if the Bind exchange
\* itself failed, and whenever apply reaches the Status or Command step the
\* device has a session key.  In fact MacNotBound is never surfaced: a failed
\* Bind surfaces the Bind exchange's own error, before any Status or Command
\* is sent, and every Status or Command is encrypted with the key stored for
\* its device.
C30_NotBoundNeverSurfaced ==
    /\ call.result[1] # "MacNotBound"
    /\ \A i \in 1..Len(call.attempts) : call.attempts[i][1] # "MacNotBound"
    /\ \A i \in 1..Len(call.sent) :
         /\ call.sent[i].t \in {"status", "cmd"} =>
              /\ call.sent[i].mac \in DOMAIN devices
              /\ devices[call.sent[i].mac].key = <<call.sent[i].key>>
         /\ call.sent[i].t = "bind" /\ ~call.sent[i].ok =>
              /\ Len(call.sent) = 1
              /\ call.attempts # <<>>
              /\ call.attempts[Len(call.attempts)] \in ExchangeErrors
              /\ devices[call.sent[i].mac].key = <<>>

\* A net_read whose Bind exchange got no answer: the call returns RecvTimeout
\* and the device has no key.
C30_Witness ==
    /\ pc = "done" /\ call.api = "apply_retrying" /\ call.op = "NetRead"
    /\ call.result = <<"RecvTimeout">>
    /\ Len(call.sent) = 1 /\ call.sent[1].t = "bind" /\ ~call.sent[1].ok
    /\ devices[call.sent[1].mac].key = <<>>

\* ----------------------------------------------------------------- C21
\* C21: the message an exchange returns was received from the address the
\* exchange was made with; an exchange that returns Ok returns a message.
C21_ResponseFromTarget ==
    call.api = "exchange" =>
      /\ call.got # None => call.got[1].src = call.ip /\ IsOk(call.result) /\ pc = "done"
      /\ IsOk(call.result) => call.got # None

\* An exchange passed over a datagram of another sender and returned one of
\* its target.
C21_Witness ==
    /\ pc = "done" /\ call.api = "exchange" /\ IsOk(call.result)
    /\ call.skipped /\ call.got # None /\ call.got[1].src = call.ip

\* ----------------------------------------------------------------- C22
\* The exchange has returned a datagram that answers an earlier request.
StaleResponse ==
    /\ call.api = "exchange" /\ call.got # None
    /\ call.got[1].re >= 1 /\ call.got[1].re < call.id

\* C22: the response an exchange returns is never a datagram the target sent
\* in reply to an earlier request (an earlier exchange or scan), in either
\* client.
C22_NoStaleResponse == ~StaleResponse

\* ----------------------------------------------------------------- C23
\* C23: every exchange that waits for its response eventually returns,
\* whatever arrives meanwhile.
C23_ExchangeReturns == (pc = "recv") ~> (pc = "done")

\* ----------------------------------------------------------------- C24
\* C24: in a low-level scan a receive that times out ends the scan with
\* success and with exactly the replies pushed so far; a reply received is
\* pushed after those before it; the scan makes at most max_count receive
\* attempts and returns at most max_count replies.
C24_TimeoutEndsScan ==
    [][ pc = "scanrecv" /\ call' # call =>
          /\ call.n < cfg.max_count
          /\ call'.n = call.n + 1
          /\ Len(call'.rv) <= call'.n
          /\ queue = <<>> =>
               /\ pc' = "done" /\ call'.result = Ok /\ call'.timedout
               /\ call'.rv = call.rv
          /\ queue # <<>> /\ Head(queue).q = "ok" =>
               /\ call'.rv = Append(call.rv, Head(queue))
               /\ pc' = "done" <=> (call'.n = cfg.max_count)
               /\ pc' = "done" => call'.result = Ok
          /\ pc' \in {"scanrecv", "done", "aborted"}
      ]_allvars

\* A scan whose second receive timed out has returned its one reply.
C24_Witness ==
    /\ pc = "done" /\ call.api = "scan" /\ IsOk(call.result)
    /\ call.timedout /\ call.n = 2 /\ Len(call.rv) = 1

\* ----------------------------------------------------------------- C25
\* C25: a scan that ends without a receive timing out, having received
\* nothing but devices' replies to scan requests, has heard max_count distinct
\* devices: repeated replies of one device do not end it.
C25_ListensForDistinct ==
    /\ pc = "done" /\ call.api = "scan" /\ IsOk(call.result)
    /\ ~call.timedout /\ Len(call.rv) = call.n
    /\ \A i \in 1..Len(call.rv) : call.rv[i].re >= 1
    => Cardinality({call.rv[i].src : i \in 1..Len(call.rv)}) = cfg.max_count

\* ----------------------------------------------------------------- C26
\* Two scan replies of distinct devices.
TwoDistinct(rs) == Len(rs) = 2 /\ rs[1].pack.mac # rs[2].pack.mac

\* The registry holds exactly the devices of the replies rs, none bound.
HoldsExactly(devs, rs) ==
    /\ DOMAIN devs = {rs[i].pack.mac : i \in 1..Len(rs)}
    /\ \A i \in 1..Len(rs) :
         devs[rs[i].pack.mac] = [ip |-> rs[i].ip, scan_result |-> rs[i].pack, key |-> None]

\* A net_read through an alias stands before its first apply: the registry
\* is the one a scan of two devices left, the aliased device is in it, the
\* call's own scan(false) did not run, and the bag's Pow slot is read-pending.
E2EReadReady ==
    /\ pc = "apply1" /\ call.api = "apply_retrying" /\ call.op = "NetRead"
    /\ call.target \in DOMAIN cfg.aliases
    /\ Cardinality(DOMAIN devices) = 2
    /\ \A m \in DOMAIN devices : devices[m].key = None
    /\ Resolve(call.target) \in DOMAIN devices
    /\ Len(call.scans) = 1 /\ ~call.scans[1].ran
    /\ "Pow" \in DOMAIN vars /\ vars["Pow"].net_read_pending

\* C26: on a fresh orchestrator whose client listens for three replies, a
\* scan that receives the replies of two distinct MACs and then a timeout
\* succeeds and leaves exactly those two devices in the registry, unbound.  A
\* net_read that follows before max_scan_age has passed, through an alias of
\* one of them and with a read-pending Pow slot, runs no scan; it sends one
\* Bind to the aliased device and, when the Bind is answered, one Status for
\* Pow under the key the Bind returned, and nothing else (a datagram is
\* missing only when its exchange returned before sending: the send failed
\* with Io, or the receiver thread had ended); when the Status is
\* answered too it returns Ok, and if the answer pairs Pow with a value the
\* slot holds the last such value with read_pending = false.
C26_EndToEnd ==
    [][ /\ pc = "idle" /\ call'.api = "scan" =>
             \A rs \in SeqsUpTo(Replies, E2EConfig.max_count) :
               TwoDistinct(rs) =>
                 E2EClientScan(FALSE, AsArrivals(rs)) = [err |-> "", replies |-> rs]
        /\ pc = "idle" /\ call'.api = "scan" /\ scan_ts = None /\ TwoDistinct(call'.replies) =>
             /\ IsOk(call'.result) /\ pc' = "done"
             /\ HoldsExactly(devices', call'.replies)
        /\ pc = "idle" /\ call'.api = "apply_retrying"
             /\ scan_ts # None /\ now < scan_ts[1] + cfg.max_scan_age =>
             /\ Len(call'.scans) = 1 /\ ~call'.scans[1].ran
             /\ call'.sent = <<>>
             /\ pc' = "apply1"
             /\ UNCHANGED <<devices, scan_ts, now>>
        /\ E2EReadReady /\ pc' # "apply1" =>
             LET mac == cfg.aliases[call.target]
                 dev == devices[mac]
                 snt == call'.sent
             IN  /\ call'.scans = call.scans /\ scan_ts' = scan_ts
                 /\ Len(snt) \in 0..2
                 /\ Len(snt) >= 1 =>
                      /\ snt[1].t = "bind" /\ snt[1].mac = mac /\ snt[1].ip = dev.ip
                      /\ snt[1].key = GENERIC_KEY
                 /\ Len(snt) = 2 =>
                      /\ snt[1].ok
                      /\ snt[2].t = "status" /\ snt[2].mac = mac /\ snt[2].ip = dev.ip
                      /\ snt[2].key = snt[1].rkey /\ snt[2].cols = ReadPending(vars)
                 /\ (Len(snt) = 0 \/ (Len(snt) = 1 /\ snt[1].ok)) =>
                      Len(call'.attempts) = 1 /\ call'.attempts[1] \in UnsentErrors
                 /\ (Len(snt) = 2 /\ snt[2].ok) <=> (pc' = "done" /\ IsOk(call'.result))
                 /\ IsOk(call'.result) =>
                      /\ devices'[mac].key = Some(snt[1].rkey)
                      /\ \/ vars' = vars
                         \/ /\ vars'["Pow"].value \in Values
                            /\ ~vars'["Pow"].net_read_pending
        /\ E2EReadReady =>
             \A bout \in {b \in BindOuts : b.err = ""} :
             \A dout \in {d \in DataOuts : d.err = ""} :
               LET a == apply(devices, call.target, "NetRead", vars, bout, dout)
               IN  /\ IsOk(a.r) /\ Len(a.sent) = 2
                   /\ "Pow" \in Echoed(dout) =>
                        /\ a.vars["Pow"].value = dout.vals[LastPair(dout, "Pow")]
                        /\ ~a.vars["Pow"].net_read_pending
      ]_allvars

\* The scan's replies came from m2 and then m1; the net_read through the
\* alias a1 of m2 has returned Ok after a Bind and a Status to m2, without a
\* scan of its own, and the Pow slot holds a value.
C26_Witness ==
    /\ pc = "done" /\ call.api = "apply_retrying" /\ call.op = "NetRead"
    /\ call.target = "a1" /\ IsOk(call.result)
    /\ call.scans = << [forced |-> FALSE, ran |-> FALSE, r |-> Ok] >>
    /\ Len(call.sent) = 2
    /\ call.sent[1].t = "bind" /\ call.sent[1].mac = "m2" /\ call.sent[1].ok
    /\ call.sent[2].t = "status" /\ call.sent[2].mac = "m2" /\ call.sent[2].ok
    /\ DOMAIN devices = {"m1", "m2"}
    /\ devices["m1"].key = None /\ devices["m2"].key # None
    /\ vars["Pow"].value = "1" /\ ~vars["Pow"].net_read_pending

\* ----------------------------------------------------------------- C27
\* C27: decode_response, given a key of 16 bytes, never aborts its caller: it
\* returns an error value whenever the pack is not base64 or decodes to a
\* length that is not a multiple of 16, and a string otherwise.
C27_DecodeNeverAborts ==
    call.api \in {"decode_response", "decode_own"} /\ Len(call.key) = blocksize =>
      /\ call.out.r # Panic
      /\ pc # "aborted"
      /\ call.api = "decode_response" =>
           LET d == b64_decode(call.input)
           IN  (~d.ok \/ Len(d.bytes) % blocksize # 0) <=> ~IsOk(call.out.r)

\* ----------------------------------------------------------------- C28
\* The byte string is well-formed UTF-8.
RECURSIVE Utf8Valid(_)
Utf8Valid(bs) ==
    \/ bs = <<>>
    \/ /\ Utf8Head(bs) > 0
       /\ Utf8Valid(SubSeq(bs, Utf8Head(bs) + 1, Len(bs)))

\* What encode_request adds to a payload: 1..16 bytes, each of them the
\* number added, a whole block when the payload is of whole blocks; the text
\* it returns holds the padded length, and pkcs7_unpad takes away what was
\* added.
PaddingAsStated ==
    call.api = "encode_request" /\ Len(call.key) = blocksize =>
      LET padded  == pkcs7_pad(call.input)
          pad_len == Len(padded) - Len(call.input)
      IN  /\ pad_len \in 1..blocksize
          /\ Len(padded) % blocksize = 0
          /\ (Len(call.input) % blocksize = 0) <=> (pad_len = blocksize)
          /\ SubSeq(padded, 1, Len(call.input)) = call.input
          /\ \A i \in (Len(call.input) + 1)..Len(padded) : padded[i] = pad_len
          /\ pkcs7_unpad(padded) = call.input
          /\ IsOk(call.out.r)
          /\ b64_decode(call.out.text).ok
          /\ Len(b64_decode(call.out.text).bytes) = Len(padded)

\* C28 as stated: for any byte payload and 16-byte key,
\* decode(encode(payload, key), key) is the payload; the padding is as above.
C28_RoundTripAnyBytes ==
    /\ PaddingAsStated
    /\ call.api = "decode_own" /\ Len(call.key) = blocksize =>
         IsOk(call.out.r) /\ call.out.string = call.input

\* C28: for any payload that is well-formed UTF-8 and any 16-byte key,
\* decode(encode(payload, key), key) is the payload; for any other payload
\* decode succeeds with a different string, the payload with each ill-formed
\* sequence replaced by U+FFFD.  The padding is as stated.
C28_RoundTripUtf8 ==
    /\ PaddingAsStated
    /\ call.api = "decode_own" /\ Len(call.key) = blocksize =>
         /\ IsOk(call.out.r)
         /\ Utf8Valid(call.input) <=> (call.out.string = call.input)
         /\ call.out.string = from_utf8_lossy(call.input)

\* A payload of exactly one block, of two-byte characters, came back as it
\* was from the text of two blocks it was encoded to.
C28_Witness ==
    /\ pc = "done" /\ call.api = "decode_own"
    /\ call.input = Alt(195, 169, blocksize)
    /\ call.key = GenericKeyBytes
    /\ IsOk(call.out.r) /\ call.out.string = call.input
    /\ Len(b64_decode(encode_request(call.input, call.key).text).bytes) = 2 * blocksize

\* ----------------------------------------------------------------- C29
\* C29: every session key stored in a device record is a 16-byte AES key, and
\* building a Status request with a stored key never aborts.
C29_StoredKeysAre16 ==
    /\ \A m \in DOMAIN devices :
         devices[m].key # None => Len(devices[m].key[1]) = blocksize
    /\ call.api = "status_request" => call.out.r # Panic /\ pc # "aborted"

\* ----------------------------------------------------------------- C31
\* A step of with_device: its first lookup, or its lookup after scan(true).
LookupStep == call'.api = "with_device_retrying" /\ pc \in {"idle", "wd2"} /\ call' # call

\* C31: with_device(target, f) returns f applied to the registry entry that
\* the target resolves to (one alias lookup); when the first lookup finds no
\* such entry it calls scan(true) and looks up once more, and NotFound(target)
\* is returned when the entry is absent then as well; an error of one of its
\* scans is returned as it is (a panic of one of its scans unwinds it).  It
\* sends no datagram but scan broadcasts, and changes the registry only by its
\* scans.
C31_WithDevice ==
    [][ LookupStep =>
          LET mac == KeyFor(call'.target)
              c   == call'
              na  == Len(c.attempts)
              ns  == Len(c.scans)
          IN  /\ \A i \in 1..Len(c.sent) : c.sent[i].t = "scan"
              /\ ~c.scans[ns].ran => devices' = devices
              /\ nbind' = nbind \/ c.scans[ns].ran
              /\ na <= 2 /\ ns <= 2 /\ ns >= 1
              /\ ns = 2 <=> pc = "wd2"
              /\ ns = 2 => c.scans[2].forced /\ ~c.scans[1].forced /\ IsOk(c.scans[1].r)
                             /\ na >= 1 /\ c.attempts[1] = NotFound(c.target)
              /\ na = ns \/ (na = ns - 1 /\ ~IsOk(c.scans[ns].r))
              /\ na = ns =>
                   /\ IsOk(c.scans[ns].r)
                   /\ c.attempts[na] = (IF mac \in DOMAIN devices' THEN Ok ELSE NotFound(c.target))
              /\ pc' = "aborted" <=> c.result = Panic
              /\ pc' \in {"done", "aborted"} =>
                   /\ IsOk(c.result) <=> (c.ret # None)
                   /\ IsOk(c.result) => mac \in DOMAIN devices' /\ c.ret = Some(devices'[mac])
                   /\ IsOk(c.result) => c.attempts[na] = Ok
                   /\ ~IsOk(c.result) =>
                        \/ na = ns - 1 /\ c.result = c.scans[ns].r
                        \/ na = 2 /\ ns = 2 /\ c.result = NotFound(c.target)
                             /\ mac \notin DOMAIN devices'
              /\ pc' \notin {"done", "aborted"} =>
                   pc' = "wd2" /\ ns = 1 /\ na = 1 /\ mac \notin DOMAIN devices'
      ]_allvars

\* with_device through the alias a1 did not find m2, scanned, and handed out
\* the entry of m2 that the scan brought.
C31_Witness ==
    /\ pc = "done" /\ call.api = "with_device_retrying" /\ call.target = "a1"
    /\ call.attempts = <<NotFound("a1"), Ok>>
    /\ Len(call.scans) = 2 /\ call.scans[2].forced /\ call.scans[2].ran
    /\ "m2" \in DOMAIN devices /\ call.ret = Some(devices["m2"])
    /\ "m1" \in DOMAIN devices

\* ----------------------------------------------------------------- C32
\* The handler is executing an orchestrator operation (or is between the two
\* operations of /scan).
InOrchestrator(i) == front.h[i].at \in {"in", "in2"}

\* C32 as stated: the front ends serialize all orchestrator access through one
\* lock: a handler that is executing an orchestrator operation holds the
\* lock, and so at most one handler is executing one.
C32_ThroughOneLock ==
    /\ \A i \in Handlers : InOrchestrator(i) => front.lock = i
    /\ \A i, j \in Handlers : InOrchestrator(i) /\ InOrchestrator(j) => i = j

\* C32: at any time at most one request handler is executing an orchestrator
\* operation, and an operation is in progress (a scan decided, an exchange
\* made, the registry being updated) only while some handler is executing
\* it.  In async_tool that handler is the holder of the one lock; sync_tool
\* has no lock, and the handler is the one whose request its loop has taken.
C32_OneAtATime ==
    /\ \A i, j \in Handlers : InOrchestrator(i) /\ InOrchestrator(j) => i = j
    /\ \A i \in Handlers : InOrchestrator(i) <=> front.owner = i
    /\ pc # "idle" => front.owner \in Handlers
    /\ front.owner = "-" => call = NoCall
    /\ front.kind = "async" => front.lock = front.owner
    /\ front.kind = "sync" => front.lock = "-"

\* The handler h1 of async_tool is in the middle of a net_read, its scan
\* decided and its first apply not yet made, while h2 waits for the lock with
\* a /scan.
C32_Witness ==
    /\ front.kind = "async"
    /\ front.owner = "h1" /\ front.h["h1"].at = "in" /\ front.h["h1"].req.kind = "get"
    /\ pc = "apply1"
    /\ front.h["h2"].at = "waiting" /\ front.h["h2"].req.kind = "scan"

\* ----------------------------------------------------------------- C33
\* C33: a handler answers a failed operation with a status chosen by the
\* error's class: NotFound gives 404, a timeout (RecvTimeout of the
\* synchronous client, ResponseTimeout of the asynchronous one) or an I/O
\* error gives 503, every other error gives 400; success gives 200.  The
\* failed operation is the building of the bag, or the orchestrator's call.
\* (A handler whose operation panicked answers nothing; a URL sync_tool has no
\* request for is answered 400 with no operation made.)
C33_StatusByErrorClass ==
    [][ \A i \in Handlers :
          front.h[i].at # "idle" /\ front'.h[i].at = "idle" =>
            LET r  == IF front.h[i].at = "waiting" THEN FrontBag(front.h[i].req).r
                      ELSE call.result
                hd == front'.h[i]
            IN  IF parse_request_uri(front.kind, front.h[i].req) = None
                THEN /\ front.h[i].at = "waiting" /\ hd.status = 400
                     /\ hd.err = "invalid request" /\ front.kind = "sync"
                ELSE
                IF r = Panic THEN hd.status = 0 ELSE
                /\ (hd.err = "-") <=> IsOk(r)
                /\ ~IsOk(r) => hd.err = r[1]
                /\ hd.err = "ResponseTimeout" => front.kind = "async"
                /\ hd.err \in {"RecvTimeout", "ReceiverDisconnected"} => front.kind = "sync"
                /\ hd.status = (IF IsOk(r) THEN 200
                                ELSE IF r[1] = "NotFound" THEN 404
                                ELSE IF r[1] \in {"RecvTimeout", "ResponseTimeout", "Io"}
                                THEN 503
                                ELSE 400)
                /\ hd.status \in {200, 400, 404, 503}
      ]_allvars

\* async_tool has answered 503 to a request whose exchange timed out.
C33_Witness ==
    /\ front.kind = "async"
    /\ front.h["h1"].at = "idle"
    /\ front.h["h1"].err = "ResponseTimeout" /\ front.h["h1"].status = 503

\* ----------------------------------------------------------------- C34
\* C34: when an exchange receives a datagram of a sender other than its
\* target, well-formed or not, it drops it and goes on receiving: the
\* datagram neither completes the exchange nor makes it fail.
C34_OthersDiscarded ==
    [][ /\ pc = "recv" /\ call.api = "exchange"
        /\ queue # <<>> /\ Head(queue).src # call.ip
        /\ queue' = Tail(queue)
        => /\ pc' = "recv"
           /\ call'.result = Pending
           /\ call'.got = None
      ]_allvars

\* ----------------------------------------------------------------- C39
\* C39: in the synchronous client, once the receiver thread has ended it
\* stays ended and nothing is delivered any more: the channel only loses
\* datagrams; an exchange that is begun then drains the channel and returns
\* an error without sending; a scan pushes only replies that are in the
\* channel already.
C39_NothingAfterReceiverEnds ==
    [][ cfg.client = "sync" /\ rx = "down" =>
          /\ rx' = "down"
          /\ queue' = queue \/ (queue # <<>> /\ queue' = Tail(queue))
          /\ pc = "idle" /\ call'.api = "exchange" => pc' = "drain"
          /\ pc = "drain" =>
               /\ pc' \in {"drain", "done"}
               /\ wire' = wire
               /\ pc' = "done" => queue = <<>> /\ ~IsOk(call'.result) /\ call'.got = None
          /\ pc = "scanrecv" /\ call' # call =>
               \/ queue = <<>> /\ call'.rv = call.rv /\ pc' = "done"
               \/ queue # <<>> /\ call'.rv \in {call.rv, Append(call.rv, Head(queue))}
                    /\ queue' = Tail(queue)
      ]_allvars

\* The receiver thread has ended; a scan begun afterwards has returned the
\* one reply that was in the channel, and a datagram on its way will never be
\* delivered.
C39_Witness ==
    /\ cfg.client = "sync" /\ rx = "down"
    /\ pc = "done" /\ call.api = "scan" /\ IsOk(call.result)
    /\ Len(call.rv) = 1 /\ call.id = 2
    /\ wire # {} /\ queue = <<>>

\* ----------------------------------------------------------------- C35
\* An apply attempt one of whose answers cannot be decoded: the Bind's, or
\* after an answered Bind the Status's or Command's.
DecodeFailures ==
    LET nodata(e) == [err |-> e, names |-> <<>>, vals |-> <<>>]
    IN  { << [err |-> e, key |-> ""], nodata(e) >> : e \in DecodeErrors }
        \cup { << b, nodata(e) >> : b \in {o \in BindOuts : o.err = ""}, e \in DecodeErrors }

\* C35: a net_read, net_write or bind that returns an error leaves the
\* caller's bag as it was handed in.  Step by step: an apply attempt that
\* fails returns the bag it was given, also when an answer cannot be
\* decoded; the bag changes during a call only in the step that
\* ends the call with Ok; a scan inside the call does not touch the bag.
C35_BagUntouchedOnError ==
    [][ call.api = "apply_retrying" /\ pc \in {"apply1", "scan2", "apply2"} =>
          /\ vars' # vars => pc' = "done" /\ IsOk(call'.result)
          /\ pc = "scan2" => vars' = vars
          /\ pc # "scan2" /\ call.op # "Bind" =>
               \A f \in DecodeFailures :
                 LET a == apply(devices, call.target, call.op, vars, f[1], f[2])
                 IN  ~IsOk(a.r) /\ a.vars = vars
      ]_allvars

\* A net_write has returned an error after two attempts, the second of which
\* sent a Command that was not answered; the bag's slot is still
\* write-pending.
C35_Witness ==
    /\ pc = "done" /\ call.api = "apply_retrying" /\ call.op = "NetWrite"
    /\ Len(call.attempts) = 2 /\ call.result = Err("RecvTimeout")
    /\ call.sent # <<>> /\ call.sent[Len(call.sent)].t = "cmd"
    /\ \E n \in DOMAIN vars : vars[n].net_write_pending

\* ----------------------------------------------------------------- C36
\* C36: an allowed scan that fails (the broadcast cannot be sent, or a reply
\* cannot be decoded or parsed) changes neither the registry nor the
\* timestamp and ends the call with its error (or, where decode_response
\* panics on the reply, with the panic); every later scan decision,
\* forced or not and at whatever time, comes out as it would have without
\* that scan.
C36_FailedScanLeavesNoTrace ==
    [][ ScanStep /\ LastDec(call').ran /\ ~IsOk(LastDec(call').r) =>
          /\ scan_ts' = scan_ts
          /\ devices' = devices
          /\ pc' = IF call'.result = Panic THEN "aborted" ELSE "done"
          /\ call'.result = LastDec(call').r
          /\ call'.result \in {Err(e) : e \in {"Io"} \cup DecodeErrors}
          /\ \A f \in BOOLEAN : \A t \in now'..MaxTime :
               ScanAllowed(scan_ts', t, cfg, f) <=> ScanAllowed(scan_ts, t, cfg, f)
      ]_allvars

\* A forced scan has failed on a reply it could not decode, at a time when
\* an unforced one would not have run; the registry and the timestamp of the
\* scan before it are still there.
C36_Witness ==
    /\ pc = "done" /\ call.api = "scan"
    /\ LastDec(call).ran /\ call.result = Err("SerDe")
    /\ scan_ts # None /\ DOMAIN devices # {}
    /\ ~ScanAllowed(scan_ts, now, cfg, FALSE)

\* ----------------------------------------------------------------- C37
\* The Status and Command datagrams among those in sent.
DataSent(sent) == Sent(sent, "status") \cup Sent(sent, "cmd")

\* C37 as stated: every Status and Command is encrypted with the key the
\* device's latest answered Bind returned, that Bind was answered after the
\* latest scan that was executed, and nothing but scan requests is sent
\* before a scan has succeeded.  (nbind counts the answered Binds of each
\* device since the latest executed scan.)
C37_KeyOfBindAfterExecutedScan ==
    [][ ApplyStep =>
          /\ \A i \in DataSent(call'.sent) :
               /\ devices'[call'.sent[i].mac].key = Some(call'.sent[i].key)
               /\ nbind'[call'.sent[i].mac] >= 1
          /\ call'.sent # <<>> => scan_ts # None
      ]_allvars

\* C37, corrected: every Status and Command is encrypted with the key the
\* device's latest answered Bind returned, and that Bind was answered after
\* the latest scan that succeeded; nothing but scan requests is sent before a
\* scan has succeeded.  Step by step: a scan that succeeds leaves every
\* device without a key; a scan that fails or is skipped leaves the keys as
\* they are; an apply attempt changes no key but that of its device, which
\* it sets, when the device has none, to the key its answered Bind returned;
\* the Status or Command it sends carries the key the device has then, and no
\* Bind is sent to a device that has a key.
C37_KeyOfBindAfterSuccessfulScan ==
    [][ /\ ScanStep /\ LastDec(call').ran /\ IsOk(LastDec(call').r) =>
             \A m \in DOMAIN devices' : devices'[m].key = None
        /\ ScanStep /\ ~(LastDec(call').ran /\ IsOk(LastDec(call').r)) =>
             devices' = devices
        /\ ScanStep =>
             \A i \in 1..Len(call'.sent) : call'.sent[i].t = "scan"
        /\ ApplyStep =>
             LET snt == call'.sent
             IN  /\ snt # <<>> => scan_ts # None
                 /\ \A m \in DOMAIN devices :
                      /\ m \in DOMAIN devices'
                      /\ devices[m].key # None => devices'[m].key = devices[m].key
                 /\ \A i \in Sent(snt, "bind") :
                      /\ i = 1
                      /\ snt[i].mac \in DOMAIN devices /\ devices[snt[i].mac].key = None
                      /\ snt[i].key = GENERIC_KEY
                      /\ devices'[snt[i].mac].key =
                           IF snt[i].ok THEN Some(snt[i].rkey) ELSE None
                 /\ \A i \in DataSent(snt) :
                      /\ i = Len(snt)
                      /\ snt[i].mac \in DOMAIN devices
                      /\ devices'[snt[i].mac].key = Some(snt[i].key)
                      /\ devices[snt[i].mac].key = None =>
                           /\ i = 2 /\ snt[1].t = "bind" /\ snt[1].ok
                           /\ snt[1].mac = snt[i].mac /\ snt[1].rkey = snt[i].key
      ]_allvars

\* A forced scan was executed and failed; the net_write that follows, whose
\* own scan decision is skipped, sends its Command under the key of the Bind
\* answered before that scan, without a Bind of its own.
C37_Witness ==
    /\ pc = "done" /\ call.api = "apply_retrying" /\ call.op = "NetWrite"
    /\ IsOk(call.result)
    /\ Len(call.scans) = 1 /\ ~call.scans[1].ran
    /\ Len(call.sent) = 1 /\ call.sent[1].t = "cmd" /\ call.sent[1].ok
    /\ nbind[call.sent[1].mac] = 0
    /\ devices[call.sent[1].mac].key = Some(call.sent[1].key)

\* ----------------------------------------------------------------- C38
\* C38: an executed scan that receives no reply succeeds, empties the
\* registry and sets the timestamp to the instant it completed; while the
\* registry it emptied is younger than min_scan_age, every step of a bind,
\* net_read, net_write or with_device call sends nothing and leaves the
\* registry empty, and the call returns NotFound naming its target.
C38_EmptyUntilMinAge ==
    [][ /\ ScanStep /\ LastDec(call').ran /\ IsOk(LastDec(call').r) /\ call'.replies = <<>> =>
             DOMAIN devices' = {} /\ scan_ts' = Some(now')
        /\ /\ scan_ts # None /\ DOMAIN devices = {} /\ Age < cfg.min_scan_age
           /\ call'.api \in {"apply_retrying", "with_device_retrying"}
           /\ ScanStep \/ ApplyStep
           => /\ call'.sent = <<>>
              /\ devices' = devices /\ scan_ts' = scan_ts
              /\ pc' = "done" => call'.result = NotFound(call'.target)
      ]_allvars
====
